---- MODULE Spec2Model ----
(***************************************************************************)
(* SeisanUtil: reading a Nordic-format Sfile into an Event                 *)
(* (read.py, event.py).  Lines are strings of the 80-column bulletin       *)
(* format; the decoders slice them at the column offsets of the source.    *)
(*                                                                         *)
(* Python values are wrapped so that values of different Python types can  *)
(* be compared: None, str, int, float, bool, datetime and timedelta.       *)
(* A float is held in thousandths (5.6 is 5600); the bulletin columns      *)
(* modelled here carry at most three decimals.  float() and int() accept   *)
(* plain decimal numerals; any other text is a ValueError.                 *)
(***************************************************************************)
EXTENDS Integers, Sequences, FiniteSets, TLC

(***************************************************************************)
(* Bounds of the model.                                                    *)
(***************************************************************************)
MaxLines == 3
MaxCalls == 2
MaxBatch == 3
MaxPicks == 3
MaxMagCalls == 1
MaxDlon == 2
MaxPts == 3
MaxCat == 2

(***************************************************************************)
(* Python values.                                                          *)
(***************************************************************************)
None == [none |-> TRUE]
PStr(s) == [str |-> s]
PInt(v) == [int |-> v]
PFloat(v) == [flt |-> v]
PBool(b) == [bool |-> b]
DateTime(d, ms) == [date |-> d, ms |-> ms]

IsNone(v) == "none" \in DOMAIN v
IsStr(v) == "str" \in DOMAIN v
IsInt(v) == "int" \in DOMAIN v
IsFlt(v) == "flt" \in DOMAIN v
IsDateTime(v) == "date" \in DOMAIN v

\* Python truth value of an object: bool(v).
Truthy(v) ==
    IF IsNone(v) THEN FALSE
    ELSE IF IsStr(v) THEN v.str # ""
    ELSE IF IsInt(v) THEN v.int # 0
    ELSE IF IsFlt(v) THEN v.flt # 0
    ELSE IF "bool" \in DOMAIN v THEN v.bool
    ELSE TRUE

(***************************************************************************)
(* Python string operations (indices are 0-based as in the source).        *)
(***************************************************************************)
Min(a, b) == IF a < b THEN a ELSE b
Max(a, b) == IF a > b THEN a ELSE b

\* s[a:b]
Slice(s, a, b) ==
    IF a >= Min(b, Len(s)) THEN "" ELSE SubSeq(s, a + 1, Min(b, Len(s)))

\* s[-n:]
Suffix(s, n) == SubSeq(s, Max(1, Len(s) - n + 1), Len(s))

\* s[k], defined for 0 <= k < len(s); the callers test HasIndex first
HasIndex(s, k) == k < Len(s)
CharAt(s, k) == SubSeq(s, k + 1, k + 1)

Whitespace == {" ", "\n", "\t", "\r"}

RECURSIVE LStrip(_)
LStrip(s) ==
    IF s = "" THEN ""
    ELSE IF CharAt(s, 0) \in Whitespace THEN LStrip(SubSeq(s, 2, Len(s)))
    ELSE s

RECURSIVE RStrip(_)
RStrip(s) ==
    IF s = "" THEN ""
    ELSE IF CharAt(s, Len(s) - 1) \in Whitespace
         THEN RStrip(SubSeq(s, 1, Len(s) - 1))
    ELSE s

\* s.strip()
Strip(s) == RStrip(LStrip(s))

\* s.split()[0] of a string with a non-whitespace character
RECURSIVE UntilSpace(_)
UntilSpace(s) ==
    IF s = "" THEN ""
    ELSE IF CharAt(s, 0) \in Whitespace THEN ""
    ELSE CharAt(s, 0) \o UntilSpace(SubSeq(s, 2, Len(s)))

FirstToken(s) == UntilSpace(LStrip(s))

DigitVal ==
    [c \in {"0", "1", "2", "3", "4", "5", "6", "7", "8", "9"} |->
        CASE c = "0" -> 0 [] c = "1" -> 1 [] c = "2" -> 2 [] c = "3" -> 3
          [] c = "4" -> 4 [] c = "5" -> 5 [] c = "6" -> 6 [] c = "7" -> 7
          [] c = "8" -> 8 [] c = "9" -> 9]

RECURSIVE AllDigits(_)
AllDigits(s) ==
    \/ s = ""
    \/ /\ CharAt(s, 0) \in DOMAIN DigitVal
       /\ AllDigits(SubSeq(s, 2, Len(s)))

RECURSIVE NatOf(_)
NatOf(s) ==
    IF s = "" THEN 0
    ELSE NatOf(SubSeq(s, 1, Len(s) - 1)) * 10 + DigitVal[CharAt(s, Len(s) - 1)]

RECURSIVE IndexOfDot(_)
IndexOfDot(s) ==
    IF s = "" THEN 0
    ELSE IF CharAt(s, 0) = "." THEN 0
    ELSE 1 + IndexOfDot(SubSeq(s, 2, Len(s)))

Unsigned(t) == IF t # "" /\ CharAt(t, 0) \in {"-", "+"}
               THEN SubSeq(t, 2, Len(t)) ELSE t
Sign(t) == IF t # "" /\ CharAt(t, 0) = "-" THEN -1 ELSE 1

\* int(s): [ok |-> TRUE, v |-> n], or [ok |-> FALSE] for a ValueError
PyInt(s) ==
    LET t == Strip(s)
        u == Unsigned(t)
    IN  IF u # "" /\ AllDigits(u)
        THEN [ok |-> TRUE, v |-> Sign(t) * NatOf(u)]
        ELSE [ok |-> FALSE]

\* float(s) in thousandths: [ok |-> TRUE, v |-> n], or [ok |-> FALSE]
PyFloat(s) ==
    LET t == Strip(s)
        u == Unsigned(t)
        k == IndexOfDot(u)
        ip == Slice(u, 0, k)
        fp == Slice(u, k + 1, Len(u))
        f3 == Slice(fp \o "000", 0, 3)
    IN  IF /\ ip \o fp # ""
           /\ AllDigits(ip)
           /\ AllDigits(fp)
        THEN [ok |-> TRUE, v |-> Sign(t) * (NatOf(ip) * 1000 + NatOf(f3))]
        ELSE [ok |-> FALSE]

(***************************************************************************)
(* datetime: a date <<year, month, day>> and the milliseconds of the day.  *)
(* strptime without a date gives the date 1900-01-01.                      *)
(***************************************************************************)
NoDate == <<1900, 1, 1>>

IsLeap(y) == (y % 4 = 0 /\ y % 100 # 0) \/ y % 400 = 0
DaysInMonth(y, m) ==
    IF m = 2 THEN (IF IsLeap(y) THEN 29 ELSE 28)
    ELSE IF m \in {4, 6, 9, 11} THEN 30 ELSE 31

\* date.toordinal(): days since 0001-01-01 (proleptic Gregorian)
RECURSIVE DaysBeforeMonth(_, _)
DaysBeforeMonth(y, m) ==
    IF m = 1 THEN 0 ELSE DaysBeforeMonth(y, m - 1) + DaysInMonth(y, m - 1)
Ordinal(d) ==
    LET y == d[1] - 1
    IN  y * 365 + (y \div 4) - (y \div 100) + (y \div 400)
          + DaysBeforeMonth(d[1], d[2]) + d[3]

\* f"{y}-{m:02}-{d:02}" parsed with %Y-%m-%d: the parts must be a
\* four-digit year, a month and a day of that month; a blank part is
\* written "" or "00" and does not parse.
DateParses(y, m, d) ==
    /\ IsInt(y) /\ y.int >= 1000 /\ y.int <= 9999
    /\ IsInt(m) /\ m.int >= 1 /\ m.int <= 12
    /\ IsInt(d) /\ d.int >= 1 /\ d.int <= DaysInMonth(y.int, m.int)

\* f"{h:02}:{m:02}:{s:02}" parsed with %H:%M:%S.%f: a blank hour or minute
\* is written "00" and reads as 0; the seconds must be a float (its text
\* has the "." that %S.%f requires), a blank one is written "00" and fails.
TimeField(v) == IF IsInt(v) THEN v.int ELSE IF IsStr(v) /\ v.str = "" THEN 0 ELSE -1
TimeParses(h, m, s) ==
    /\ TimeField(h) >= 0 /\ TimeField(h) <= 23
    /\ TimeField(m) >= 0 /\ TimeField(m) <= 59
    /\ IsFlt(s) /\ s.flt >= 0 /\ s.flt < 60000
TimeMs(h, m, s) == (TimeField(h) * 60 + TimeField(m)) * 60000 + s.flt

\* origin_time.strftime("%Y-%m-%d"): the text "YYYY-MM-DD", held as the
\* date it names (strptime reads a four-digit year back to the same date).
Strftime(dt) == [datestr |-> dt.date]

\* a - b of two datetimes: timedelta(days, milliseconds of the day);
\* total_seconds() is days * 86400 + ms / 1000.
DayMs == 86400000
TimeDelta(a, b) ==
    LET days == Ordinal(a.date) - Ordinal(b.date)
        ms == a.ms - b.ms
    IN  IF ms < 0 THEN [days |-> days - 1, ms |-> ms + DayMs]
        ELSE [days |-> days, ms |-> ms]

(***************************************************************************)
(* Results of a call: Ok(value) or Raise(exception name).                  *)
(***************************************************************************)
Ok(v) == [exc |-> "", val |-> v]
Raise(e) == [exc |-> e]
Raised(r) == r.exc # ""

\* for k,v in d.items(): d[k] = v.strip()
StripAll(d) == [k \in DOMAIN d |-> PStr(Strip(d[k]))]

\* for key in keys: if d[key]: d[key] = int(d[key])
RECURSIVE CoerceInts(_, _)
CoerceInts(d, keys) ==
    IF keys = <<>> THEN Ok(d)
    ELSE LET k == Head(keys)
             p == PyInt(d[k].str)
         IN  IF k \notin DOMAIN d THEN Raise("KeyError")
             ELSE IF ~Truthy(d[k]) THEN CoerceInts(d, Tail(keys))
             ELSE IF ~p.ok THEN Raise("ValueError")
             ELSE CoerceInts([d EXCEPT ![k] = PInt(p.v)], Tail(keys))

\* Variant: a blank value is converted to the number 0.
RECURSIVE CoerceFloats_BlankIsZero(_, _)
CoerceFloats_BlankIsZero(d, keys) ==
    IF keys = <<>> THEN Ok(d)
    ELSE LET k == Head(keys)
             p == PyFloat(d[k].str)
         IN  IF k \notin DOMAIN d THEN Raise("KeyError")
             ELSE IF ~Truthy(d[k])
                  THEN CoerceFloats_BlankIsZero([d EXCEPT ![k] = PFloat(0)],
                                                Tail(keys))
             ELSE IF ~p.ok THEN Raise("ValueError")
             ELSE CoerceFloats_BlankIsZero([d EXCEPT ![k] = PFloat(p.v)],
                                           Tail(keys))

\* for key in keys: if d[key]: d[key] = float(d[key])
RECURSIVE CoerceFloats(_, _)
CoerceFloats(d, keys) ==
    IF keys = <<>> THEN Ok(d)
    ELSE LET k == Head(keys)
             p == PyFloat(d[k].str)
         IN  IF k \notin DOMAIN d THEN Raise("KeyError")
             ELSE IF ~Truthy(d[k]) THEN CoerceFloats(d, Tail(keys))
             ELSE IF ~p.ok THEN Raise("ValueError")
             ELSE CoerceFloats([d EXCEPT ![k] = PFloat(p.v)], Tail(keys))

(***************************************************************************)
(* The record decoders of read.py.  Each returns Ok(dict) or Raise(...).   *)
(***************************************************************************)
_parse_type_1(line) ==
    LET ev_info == StripAll(
            [year |-> Slice(line, 1, 5), month |-> Slice(line, 6, 8),
             day |-> Slice(line, 8, 10), hour |-> Slice(line, 11, 13),
             minute |-> Slice(line, 13, 15), second |-> Slice(line, 16, 20),
             latitude |-> Slice(line, 23, 30),
             longitude |-> Slice(line, 30, 38),
             depth |-> Slice(line, 38, 43), n |-> Slice(line, 48, 51),
             rms |-> Slice(line, 51, 55), mag |-> Slice(line, 55, 59)])
        ints == CoerceInts(ev_info,
                    <<"year", "month", "day", "hour", "minute", "n">>)
        floats == CoerceFloats(ints.val,
                    <<"second", "latitude", "longitude", "depth", "rms",
                      "mag">>)
        d == floats.val
    IN  IF Raised(ints) THEN ints
        ELSE IF Raised(floats) THEN floats
        ELSE IF ~DateParses(d.year, d.month, d.day) THEN Raise("ValueError")
        ELSE IF ~TimeParses(d.hour, d.minute, d.second)
             THEN Raise("ValueError")
        ELSE IF ~HasIndex(line, 43) THEN Raise("IndexError")
        ELSE Ok(d @@ [origin_time |->
                        DateTime(<<d.year.int, d.month.int, d.day.int>>,
                                 TimeMs(d.hour, d.minute, d.second)),
                      fixed_depth |-> PBool(CharAt(line, 43) = "F")])

\* the body is "pass": the call returns None
_parse_type_2(line) == Ok(None)

_parse_type_3(line) == Ok([comment |-> PStr(Slice(line, 1, 80))])

\* arrtime of a phase line: strptime with the date when one is given
ArrTime(arr, date) ==
    IF ~TimeParses(arr.arr_h, arr.arr_m, arr.arr_s) THEN Raise("ValueError")
    ELSE Ok(arr @@ [arrtime |->
                DateTime(IF IsNone(date) THEN NoDate ELSE date.datestr,
                         TimeMs(arr.arr_h, arr.arr_m, arr.arr_s))])

_parse_type_phase_nordic2(line, date) ==
    LET arr == StripAll(
            [sta |-> Slice(line, 1, 6), cmp |-> Slice(line, 6, 9),
             Net |-> Slice(line, 10, 12), loc |-> Slice(line, 12, 14),
             qual |-> Slice(line, 15, 16), phase |-> Slice(line, 16, 24),
             wgtind |-> Slice(line, 24, 25), arr_h |-> Slice(line, 26, 28),
             arr_m |-> Slice(line, 28, 30), arr_s |-> Slice(line, 31, 37),
             param1 |-> Slice(line, 37, 44), param2 |-> Slice(line, 44, 50),
             agency |-> Slice(line, 51, 54), op |-> Slice(line, 55, 58),
             ain |-> Slice(line, 59, 63), tres |-> Slice(line, 63, 68),
             dist |-> Slice(line, 70, 75), az |-> Slice(line, 76, 79)])
        ints == CoerceInts(arr, <<"arr_h", "arr_m">>)
        floats == CoerceFloats(ints.val,
                    <<"per", "amp", "arr_s", "ain", "dist", "trex", "az">>)
    IN  IF ~HasIndex(line, 24) THEN Raise("IndexError")
        ELSE IF Raised(ints) THEN ints
        ELSE IF Raised(floats) THEN floats
        ELSE ArrTime(floats.val, date)

_parse_type_phase_nordic(line, date) ==
    LET arr == StripAll(
            [sta |-> Slice(line, 1, 6), inst |-> Slice(line, 6, 7),
             cmp |-> Slice(line, 7, 8), qual |-> Slice(line, 9, 10),
             phase |-> Slice(line, 10, 14), wgtind |-> Slice(line, 14, 15),
             pol |-> Slice(line, 16, 17), arr_h |-> Slice(line, 18, 20),
             arr_m |-> Slice(line, 20, 22), arr_s |-> Slice(line, 22, 28),
             amp |-> Slice(line, 33, 40), per |-> Slice(line, 41, 45),
             ain |-> Slice(line, 56, 60), tres |-> Slice(line, 63, 68),
             dist |-> Slice(line, 70, 75), az |-> Slice(line, 75, 79)])
        ints == CoerceInts(arr, <<"arr_h", "arr_m">>)
        floats == CoerceFloats(ints.val,
                    <<"per", "amp", "arr_s", "ain", "dist", "tres", "az">>)
    IN  IF ~HasIndex(line, 16) THEN Raise("IndexError")
        ELSE IF Raised(ints) THEN ints
        ELSE IF Raised(floats) THEN floats
        ELSE ArrTime(floats.val, date)

_parse_type_6(line) == Ok([wf_location |-> PStr(Strip(Slice(line, 1, 79)))])

\* Variant: a blank column is decoded as the number zero.
_parse_type_E_BlankIsZero(line) ==
    LET num(a, b) == IF Strip(Slice(line, a, b)) = "" THEN PFloat(0)
                     ELSE PFloat(PyFloat(Slice(line, a, b)).v)
    IN  Ok([gap |-> num(5, 8), otime_err |-> num(14, 20),
            lat_err |-> num(23, 30), lon_err |-> num(31, 38),
            z_err |-> num(38, 43)])

\* if v.strip(): ev_info[k] = float(v)  else: ev_info[k] = ''
_parse_type_E(line) ==
    LET ev_info == StripAll(
            [gap |-> Slice(line, 5, 8), otime_err |-> Slice(line, 14, 20),
             lat_err |-> Slice(line, 23, 30), lon_err |-> Slice(line, 31, 38),
             z_err |-> Slice(line, 38, 43)])
    IN  CoerceFloats(ev_info,
            <<"gap", "otime_err", "lat_err", "lon_err", "z_err">>)

_parse_type_F(line) ==
    Ok([sdr_aki |-> PStr(Slice(line, 1, 30)),
        fp_err |-> PStr(Slice(line, 30, 45)),
        fp_fit_err |-> PStr(Slice(line, 45, 50)),
        sta_dist_ratio |-> PStr(Slice(line, 50, 55)),
        amp_ratio_fit |-> PStr(Slice(line, 55, 60)),
        n_bad_pol |-> PStr(Slice(line, 60, 62)),
        n_bad_amp |-> PStr(Slice(line, 63, 65)),
        agency_code |-> PStr(Slice(line, 66, 69)),
        fp_program |-> PStr(Slice(line, 70, 77)),
        soln_qual |-> PStr(Slice(line, 77, 78))])

\* return {}
EmptyDict == [k \in {} |-> None]
\* Variant: the high-accuracy line sets the depth.
_parse_type_H_SetsDepth(line) ==
    Ok([depth |-> PStr(Strip(Slice(line, 38, 43)))])

_parse_type_H(line) == Ok(EmptyDict)
_parse_type_I(line) == Ok(EmptyDict)
_parse_type_M(line) == Ok(EmptyDict)
_parse_type_P(line) == Ok(EmptyDict)
_parse_type_S(line) == Ok(EmptyDict)

_parse_type_EC3(line) ==
    Ok([ex_info |-> PStr(Slice(line, 1, 11)),
        ex_charge |-> PStr(Slice(line, 12, 22)),
        ex_extra_info |-> PStr(Slice(line, 23, 77))])

_parse_type_macro(line) == Ok([macro_file |-> PStr(FirstToken(line))])

(***************************************************************************)
(* Event (event.py).  attrs maps an attribute name to its value; setattr   *)
(* adds names that __init__ did not create.                                *)
(***************************************************************************)
NewEvent ==
    [attrs |-> [origin_time |-> None, latitude |-> None, longitude |-> None,
                depth |-> None, mag |-> None, lat_err |-> None,
                lon_err |-> None, z_err |-> None, otime_err |-> None,
                n |-> None, gap |-> None, fixed_depth |-> PBool(FALSE),
                rms |-> None, ev_type |-> None],
     phase_arrivals |-> <<>>,
     ttimes |-> <<>>,
     amplitudes |-> <<>>,
     sta_coords |-> <<>>]

\* for k,v in d.items(): setattr(self, k, v)
update_from_dict(ev, d) ==
    IF IsNone(d) THEN Raise("AttributeError")
    ELSE Ok([ev EXCEPT !.attrs = d @@ ev.attrs])

\* Variant: the value of d["amp"] is not tested, only the key.
add_arrivals_KeyOnly(ev, d) ==
    IF "amp" \in DOMAIN d
    THEN [ev EXCEPT !.amplitudes = Append(@, d)]
    ELSE [ev EXCEPT !.phase_arrivals = Append(@, d)]

\* Variant: the else is missing, every record is also an arrival.
add_arrivals_NoElse(ev, d) ==
    IF "amp" \in DOMAIN d /\ Truthy(d.amp)
    THEN [ev EXCEPT !.amplitudes = Append(@, d),
                    !.phase_arrivals = Append(@, d)]
    ELSE [ev EXCEPT !.phase_arrivals = Append(@, d)]

\* if "amp" in d and d["amp"]: amplitudes.append(d)
\* else: phase_arrivals.append(d)
add_arrivals_from_dict(ev, d) ==
    IF "amp" \in DOMAIN d /\ Truthy(d.amp)
    THEN [ev EXCEPT !.amplitudes = Append(@, d)]
    ELSE [ev EXCEPT !.phase_arrivals = Append(@, d)]

\* for arr in self.phase_arrivals: ... self.ttimes.append([...])
\* Returns Ok(event after the call); the value returned is its ttimes.
RECURSIVE TtimesLoop(_, _)
TtimesLoop(ev, arrs) ==
    IF arrs = <<>> THEN Ok(ev)
    ELSE LET arr == Head(arrs)
         IN  IF "dist" \notin DOMAIN arr THEN Raise("KeyError")
             ELSE IF ~Truthy(arr.dist) THEN TtimesLoop(ev, Tail(arrs))
             ELSE IF ~IsDateTime(ev.attrs.origin_time) THEN Raise("TypeError")
             ELSE TtimesLoop(
                    [ev EXCEPT !.ttimes = Append(@,
                        <<arr.sta, arr.phase, arr.dist,
                          TimeDelta(arr.arrtime, ev.attrs.origin_time)>>)],
                    Tail(arrs))

calc_ttimes(ev) == TtimesLoop(ev, ev.phase_arrivals)

(***************************************************************************)
(* The bulletin lines the model reads.  Each is one line of the 80-column  *)
(* Nordic format (column 80 is index 79), except the blank line.           *)
(***************************************************************************)
HypA ==
    " 1996  6 3 1955 35.5 D  47.760 153.227 10.0  TES 12 1.1 5.6LTES                1"
HypB ==
    " 1996  6 4  1 2  3.0 L  48.000 154.000     F TES  8                            1"
PhaseA ==
    " TRO  SZ EP       20 5 32.5                               21    1.7510 6471 343 "
PhaseB ==
    " KBS  HN  IAML    20 5 40.78       169.4  0.8                                   "
PhaseC ==
    " MOL  SZ  AML     20 6  1.25         0.0  1.0                           120     "
PhaseD ==
    " TRO  SZ ES       20 5 35.0                                               0 343 "
ErrA ==
    " GAP=348        2.88     999.9   999.9999.9 -0.1404E+08 -0.3810E+08  0.1205E+09E"
ErrB ==
    " GAP=           0.50               4.2  0.0                                    E"
Com ==
    " This is a comment line                                                        3"
Mac2 ==
    " Felt strongly                                                                 2"
Exp ==
    " QUARRY     500        blast near the harbour                                EC3"
MacroHyp ==
    " 1996  6 5  7 8  9.0    50.000 160.000 33.0       4 0.2 2.0               MACRO3"
Phase2Amp ==
    " HYA  HHZ NS00  IAML      0515 46.950  344.9  0.40 TES pv      -0.07    299 163 "
Blank ==
    "   "

Lines ==
    {HypA, HypB, PhaseA, PhaseB, PhaseC, PhaseD, Phase2Amp,
     ErrA, ErrB, Com, Mac2, Exp, MacroHyp, Blank}

Formats == {1, 2, 3}

(***************************************************************************)
(* read_sfile (read.py), one line at a time, then calc_ttimes on the       *)
(* returned Event.                                                         *)
(*   format, read_arrivals  the arguments of read_sfile                    *)
(*   pc          "start", "reading", "returned" or "raised"                *)
(*   exc         the exception read_sfile raised, "" if none               *)
(*   nread       lines taken from f.readlines() so far                     *)
(*   at_eof      the line taken last had no line break: it ends the file   *)
(*   line, type_line, phase_info   the locals of read_sfile                *)
(*   event       the Event                                                 *)
(*   calls, ret  calc_ttimes calls made, and what the last one returned    *)
(*   hyp_lines   history: the lines folded whose record tag is '1'         *)
(***************************************************************************)
VARIABLES format, read_arrivals, pc, exc, nread, at_eof, line, type_line,
          phase_info, event, calls, ret, hyp_lines

(***************************************************************************)
(* Catalog (catalog.py): the constructor and add_events.                   *)
(*   events      the argument: a list of Sfile paths and Event instances   *)
(*   via         "__init__": Catalog(events); "add_events": add_events on  *)
(*               an empty Catalog()                                        *)
(*   cat_pc      "start", "adding", "done" or "raised"                     *)
(*   cat_exc     the exception that ended the call, "" if none             *)
(*   cat_i       index (from 1) of the list item the loop takes next       *)
(*   catalog     self.catalog                                              *)
(***************************************************************************)
VARIABLES events, via, cat_pc, cat_exc, cat_i, catalog

(***************************************************************************)
(* Event.calc_mag with the default formula _kim (event.py).                *)
(*   mag_calls   calc_mag calls made on the event                          *)
(*   mag_op      the method called last on the event, "" before any        *)
(*   mag_args    the keyword arguments of the last calc_mag call           *)
(*   mag_exc     the exception the last call raised, "" if none            *)
(***************************************************************************)
VARIABLES mag_calls, mag_op, mag_args, mag_exc

(***************************************************************************)
(* calc_dist_geo (util.py): the Vincenty iteration.                        *)
(*   geo_in      the kind of the two points handed to the call             *)
(*   geo_pc      "start", "loop", "returned" or "raised"                   *)
(*   geo_exc     the exception the call raised, "" if none                 *)
(*   iterlimit, dlon, last_dlon   the locals of calc_dist_geo              *)
(*   iters       history: executions of the loop body so far               *)
(***************************************************************************)
VARIABLES geo_in, geo_pc, geo_exc, iterlimit, dlon, last_dlon, iters

(***************************************************************************)
(* least_squares_bf (util.py).                                             *)
(*   fit_x, fit_y   the arguments                                          *)
(*   fit_pc         "start", "returned" or "raised"                        *)
(*   fit_ret        the tuple returned                                     *)
(***************************************************************************)
VARIABLES fit_x, fit_y, fit_pc, fit_ret

(***************************************************************************)
(* Catalog.filter (catalog.py):                                            *)
(*   flt_cat     self.catalog, the events of the catalog filtered          *)
(*   flt_args    the keyword arguments of the call                         *)
(*   flt_pc      "start", "returned" or "raised"                           *)
(*   flt_exc     the exception raised, "" if none                          *)
(*   flt_ret     the catalog list of the Catalog returned                  *)
(***************************************************************************)
VARIABLES flt_cat, flt_args, flt_pc, flt_exc, flt_ret

readvars == <<format, read_arrivals, pc, exc, nread, at_eof, line, type_line,
              phase_info, calls, ret, hyp_lines>>
catvars == <<events, via, cat_pc, cat_exc, cat_i, catalog>>

magvars == <<mag_calls, mag_op, mag_args, mag_exc>>

geovars == <<geo_in, geo_pc, geo_exc, iterlimit, dlon, last_dlon, iters>>
fitvars == <<fit_x, fit_y, fit_pc, fit_ret>>
fltvars == <<flt_cat, flt_args, flt_pc, flt_exc, flt_ret>>

vars == <<readvars, event, catvars, magvars, geovars, fitvars, fltvars>>

\* what the steps of read_sfile and calc_ttimes leave alone
notread == <<catvars, magvars, geovars, fitvars, fltvars>>
\* what the steps of Catalog leave alone
notcat == <<readvars, event, magvars, geovars, fitvars, fltvars>>
\* what the steps of calc_mag leave alone
notmag == <<readvars, catvars, geovars, fitvars, fltvars>>
\* what the steps of calc_dist_geo leave alone
notgeo == <<readvars, event, catvars, magvars, fitvars, fltvars>>
\* what least_squares_bf leaves alone
notfit == <<readvars, event, catvars, magvars, geovars, fltvars>>
\* what Catalog.filter leaves alone
notflt == <<readvars, event, catvars, magvars, geovars, fitvars>>

\* no calc_dist_geo call is in progress
GeoIdle ==
    /\ geo_in = "" /\ geo_pc = "idle" /\ geo_exc = "" /\ iterlimit = 0
    /\ dlon = 0 /\ last_dlon = 0 /\ iters = 0

\* no Catalog.filter call is in progress
FltIdle ==
    /\ flt_cat = <<>> /\ flt_args = <<>> /\ flt_pc = "idle" /\ flt_exc = ""
    /\ flt_ret = <<>>

\* no least_squares_bf call is in progress
FitIdle ==
    /\ fit_x = <<>> /\ fit_y = <<>> /\ fit_pc = "idle" /\ fit_ret = <<>>

\* no calc_mag call was made
MagIdle ==
    /\ mag_calls = 0 /\ mag_op = "" /\ mag_args = <<>> /\ mag_exc = ""

\* no Catalog call is in progress
CatIdle ==
    /\ events = <<>> /\ via = "" /\ cat_pc = "idle" /\ cat_exc = ""
    /\ cat_i = 0 /\ catalog = <<>>

\* no read_sfile call is in progress
ReadIdle ==
    /\ format = 1 /\ read_arrivals = TRUE /\ pc = "idle" /\ exc = ""
    /\ nread = 0 /\ at_eof = FALSE /\ line = "" /\ type_line = "<unbound>"
    /\ phase_info = None /\ calls = 0 /\ ret = [exc |-> "no call"]
    /\ hyp_lines = <<>>

\* type_line before its first assignment
Unbound == "<unbound>"
NoCall == [exc |-> "no call"]

\* read.py 25-30: the comparison on line 28 assigns nothing
Classify(tl, ln) ==
    IF Suffix(ln, 3) = "EC3" THEN Ok("EC3")
    ELSE IF Suffix(ln, 6) = "MACRO3"
         THEN (IF tl = Unbound THEN Raise("UnboundLocalError") ELSE Ok(tl))
    ELSE IF ~HasIndex(ln, 79) THEN Raise("IndexError")
    ELSE Ok(CharAt(ln, 79))

\* Variant: the origin date is never handed to the phase decoder.
PhaseDate_Never(ev) == None

\* read.py 42-46: the date handed to the phase decoder
PhaseDate(ev) ==
    IF Truthy(ev.attrs.origin_time) THEN Strftime(ev.attrs.origin_time)
    ELSE None

\* event.update_from_dict(<decoded>)
Merge(ev, r, pi) ==
    IF Raised(r) THEN [exc |-> r.exc, event |-> ev, phase_info |-> pi]
    ELSE LET u == update_from_dict(ev, r.val)
         IN  IF Raised(u) THEN [exc |-> u.exc, event |-> ev, phase_info |-> pi]
             ELSE [exc |-> "", event |-> u.val, phase_info |-> pi]

\* phase_info = <decoded>; event.add_arrivals_from_dict(phase_info)
Arrive(ev, r, pi) ==
    IF Raised(r) THEN [exc |-> r.exc, event |-> ev, phase_info |-> pi]
    ELSE [exc |-> "", event |-> add_arrivals_from_dict(ev, r.val),
          phase_info |-> r.val]

\* read.py 32-84: the elif chain on type_line
Dispatch(ev, tl, ln, fmt, ra, pi) ==
    IF tl = "1" THEN Merge(ev, _parse_type_1(ln), pi)
    ELSE IF tl = "2" THEN Merge(ev, _parse_type_2(ln), pi)
    ELSE IF tl = "3" THEN Merge(ev, _parse_type_3(ln), pi)
    ELSE IF tl = " " /\ ra /\ fmt = 1
         THEN Arrive(ev, _parse_type_phase_nordic(ln, PhaseDate(ev)), pi)
    ELSE IF tl = " " /\ ra /\ fmt = 2
         THEN Arrive(ev, _parse_type_phase_nordic2(ln, PhaseDate(ev)), pi)
    ELSE IF tl = "6" THEN Merge(ev, _parse_type_6(ln), pi)
    ELSE IF tl = "E" THEN Merge(ev, _parse_type_E(ln), pi)
    ELSE IF tl = "F" THEN Merge(ev, _parse_type_F(ln), pi)
    ELSE IF tl = "H" THEN Merge(ev, _parse_type_H(ln), pi)
    ELSE IF tl = "I" THEN Merge(ev, _parse_type_I(ln), pi)
    ELSE IF tl = "M" THEN Merge(ev, _parse_type_M(ln), pi)
    ELSE IF tl = "P" THEN Merge(ev, _parse_type_P(ln), pi)
    ELSE IF tl = "S" THEN Merge(ev, _parse_type_S(ln), pi)
    ELSE IF tl = "EC3" THEN Merge(ev, _parse_type_EC3(ln), pi)
    ELSE IF tl = "MACRO3" THEN Merge(ev, _parse_type_macro(ln), pi)
    ELSE [exc |-> "", event |-> ev, phase_info |-> pi]

\* The record tag of a line as the format defines it (the line break is
\* not part of the line); used to state properties, not by the program.
TagOf(ln) ==
    LET text == IF Suffix(ln, 1) = "\n" THEN Slice(ln, 0, Len(ln) - 1) ELSE ln
    IN  IF Strip(text) = "" THEN "blank"
        ELSE IF Suffix(text, 3) = "EC3" THEN "EC3"
        ELSE IF Suffix(text, 6) = "MACRO3" THEN "MACRO3"
        ELSE IF ~HasIndex(text, 79) THEN "short"
        ELSE CharAt(text, 79)

Init ==
    /\ format \in Formats
    /\ read_arrivals \in BOOLEAN
    /\ pc = "start"
    /\ exc = ""
    /\ nread = 0
    /\ at_eof = FALSE
    /\ line = ""
    /\ type_line = Unbound
    /\ phase_info = None
    /\ event = NewEvent
    /\ calls = 0
    /\ ret = NoCall
    /\ hyp_lines = <<>>
    /\ CatIdle
    /\ MagIdle
    /\ GeoIdle
    /\ FitIdle /\ FltIdle

\* Variant: the format argument is not checked.
Begin_NoFormatCheck ==
    /\ pc = "start"
    /\ pc' = "reading" /\ exc' = ""
    /\ UNCHANGED <<format, read_arrivals, nread, at_eof, line, type_line,
                   phase_info, event, calls, ret, hyp_lines>>
    /\ UNCHANGED notread

\* read.py 16-19
Begin ==
    /\ pc = "start"
    /\ IF format # 1 /\ format # 2
       THEN pc' = "raised" /\ exc' = "ValueError"
       ELSE pc' = "reading" /\ exc' = ""
    /\ UNCHANGED <<format, read_arrivals, nread, at_eof, line, type_line,
                   phase_info, event, calls, ret, hyp_lines>>
    /\ UNCHANGED notread

\* read.py 21-84: one iteration of the loop over f.readlines(); nl tells
\* whether the line ends with a line break (only the last line may not)
ReadLine(l, nl) ==
    LET ln == IF nl THEN l \o "\n" ELSE l
        c == Classify(type_line, ln)
        r == Dispatch(event, c.val, ln, format, read_arrivals, phase_info)
    IN  /\ pc = "reading"
        /\ ~at_eof
        /\ nread < MaxLines
        /\ nread' = nread + 1
        /\ at_eof' = ~nl
        /\ line' = ln
        /\ IF Strip(ln) = ""
           THEN UNCHANGED <<pc, exc, type_line, phase_info, event, hyp_lines>>
           ELSE IF Raised(c)
           THEN /\ pc' = "raised"
                /\ exc' = c.exc
                /\ UNCHANGED <<type_line, phase_info, event, hyp_lines>>
           ELSE /\ type_line' = c.val
                /\ pc' = IF r.exc # "" THEN "raised" ELSE pc
                /\ exc' = r.exc
                /\ event' = r.event
                /\ phase_info' = r.phase_info
                /\ hyp_lines' = IF TagOf(ln) = "1" /\ r.exc = ""
                                THEN Append(hyp_lines, ln) ELSE hyp_lines
        /\ UNCHANGED <<format, read_arrivals, calls, ret>>
        /\ UNCHANGED notread

\* read.py 85-86
Return ==
    /\ pc = "reading"
    /\ pc' = "returned"
    /\ event' = [event EXCEPT !.attrs = [sfile |-> PStr("path")] @@ @]
    /\ UNCHANGED <<format, read_arrivals, exc, nread, at_eof, line,
                   type_line, phase_info, calls, ret, hyp_lines>>
    /\ UNCHANGED notread

\* event.calc_ttimes() on the returned Event
CalcTtimes ==
    LET r == calc_ttimes(event)
    IN  /\ pc = "returned"
        /\ calls < MaxCalls
        /\ calls' = calls + 1
        /\ IF Raised(r)
           THEN ret' = r /\ UNCHANGED event
           ELSE ret' = Ok(r.val.ttimes) /\ event' = r.val
        /\ UNCHANGED <<format, read_arrivals, pc, exc, nread, at_eof, line,
                       type_line, phase_info, hyp_lines>>
        /\ UNCHANGED notread

Next ==
    \/ Begin
    \/ \E l \in Lines, nl \in BOOLEAN : ReadLine(l, nl)
    \/ Return
    \/ CalcTtimes

Spec == Init /\ [][Next]_vars

(***************************************************************************)
(* Properties.  The line of the last loop iteration is `line`; it has      *)
(* been folded when read_sfile is still reading (or has returned) and has  *)
(* raised otherwise.                                                       *)
(***************************************************************************)
Taken == nread > 0 /\ pc # "start"
HasAttr(name) == name \in DOMAIN event.attrs

\* C1: every line that ends with "EC3", with or without a line break after
\* it, is tagged ExplosionInfo and folded by the explosion decoder: the
\* event's ex_info, ex_charge and ex_extra_info are the line's columns.
C1_Ec3LineIsExplosionInfo ==
    (Taken /\ TagOf(line) = "EC3") =>
        /\ type_line = "EC3"
        /\ HasAttr("ex_info") /\ HasAttr("ex_charge")
        /\ HasAttr("ex_extra_info")
        /\ event.attrs.ex_info = PStr(Slice(line, 1, 11))
        /\ event.attrs.ex_charge = PStr(Slice(line, 12, 22))
        /\ event.attrs.ex_extra_info = PStr(Slice(line, 23, 77))

\* C2: every line that ends with "MACRO3" is tagged MacroObservationRef
\* whatever preceded it: the read does not fail on it and macro_file is
\* the first whitespace-delimited token of the line.
C2_MacroLineSetsMacroFile ==
    (Taken /\ TagOf(line) = "MACRO3") =>
        /\ pc # "raised"
        /\ type_line = "MACRO3"
        /\ HasAttr("macro_file")
        /\ event.attrs.macro_file = PStr(FirstToken(line))

\* C3: a line whose column-80 character is '2' is folded without raising.
C3_Type2LineFolds ==
    (Taken /\ TagOf(line) = "2") => pc # "raised"

\* C5: with format=2, the format-2 amplitude line of the tests is decoded
\* without raising and is stored as the last AmplitudeRecord, carrying its
\* amplitude 344.9 and period 0.40; it is not stored as an ArrivalRecord.
C5_Format2AmplitudeStored ==
    (Taken /\ format = 2 /\ read_arrivals
        /\ line \in {Phase2Amp, Phase2Amp \o "\n"}) =>
        /\ pc # "raised"
        /\ event.amplitudes # <<>>
        /\ LET rec == event.amplitudes[Len(event.amplitudes)]
           IN  /\ rec.sta = PStr("HYA")
               /\ "amp" \in DOMAIN rec /\ rec.amp = PFloat(344900)
               /\ "per" \in DOMAIN rec /\ rec.per = PFloat(400)
        /\ \A k \in 1..Len(event.phase_arrivals) :
               event.phase_arrivals[k].sta # PStr("HYA")

\* The last loop iteration folded a phase line of the legacy layout.
PhaseFolded ==
    /\ Taken /\ pc # "raised"
    /\ TagOf(line) = " " /\ format = 1 /\ read_arrivals

NonZeroNumber(v) == (IsFlt(v) /\ v.flt # 0) \/ (IsInt(v) /\ v.int # 0)
Last(s) == s[Len(s)]

\* C4 as claimed: a record is an AmplitudeRecord if and only if its
\* amplitude value is non-empty, zero included.
C4_AmplitudeIffNonEmpty ==
    /\ \A k \in 1..Len(event.amplitudes) :
           event.amplitudes[k].amp # PStr("")
    /\ \A k \in 1..Len(event.phase_arrivals) :
           event.phase_arrivals[k].amp = PStr("")

\* C4 as amended: a record is an AmplitudeRecord if and only if its
\* amplitude value is a number other than zero; a record whose amplitude is
\* blank or zero is an ArrivalRecord.  The record of the line just folded
\* is the last one of the list it belongs to.
C4_AmplitudeIffNonZero ==
    /\ \A k \in 1..Len(event.amplitudes) :
           NonZeroNumber(event.amplitudes[k].amp)
    /\ \A k \in 1..Len(event.phase_arrivals) :
           ~NonZeroNumber(event.phase_arrivals[k].amp)
    /\ PhaseFolded =>
           IF NonZeroNumber(phase_info.amp)
           THEN event.amplitudes # <<>>
                /\ Last(event.amplitudes) = phase_info
           ELSE event.phase_arrivals # <<>>
                /\ Last(event.phase_arrivals) = phase_info

C4_Witness ==
    /\ pc = "returned"
    /\ \E k \in 1..Len(event.amplitudes) :
           event.amplitudes[k].amp = PFloat(169400)
    /\ \E k \in 1..Len(event.phase_arrivals) :
           event.phase_arrivals[k].amp = PFloat(0)
    /\ \E k \in 1..Len(event.phase_arrivals) :
           event.phase_arrivals[k].amp = PStr("")

\* C6: with read_arrivals, a step that folds a blank-tag line appends the
\* record decoded from that line to exactly one of phase_arrivals and
\* amplitudes and leaves the other unchanged; every other step leaves both
\* unchanged.  So each list is in input-line order and together they hold
\* one record per blank-tag line.
C6_Step ==
    LET pa == event.phase_arrivals
        am == event.amplitudes
        rec == phase_info'
    IN  IF /\ pc = "reading" /\ pc' = "reading" /\ nread' = nread + 1
           /\ TagOf(line') = " " /\ read_arrivals
        THEN /\ rec.sta = PStr(Strip(Slice(line', 1, 6)))
             /\ rec.phase = PStr(Strip(Slice(line', 10, 14)))
             /\ \/ /\ event'.phase_arrivals = Append(pa, rec)
                   /\ event'.amplitudes = am
                \/ /\ event'.amplitudes = Append(am, rec)
                   /\ event'.phase_arrivals = pa
        ELSE /\ event'.phase_arrivals = pa
             /\ event'.amplitudes = am

C6_OneRecordPerPhaseLine == [][C6_Step]_vars

C6_Witness ==
    /\ pc = "returned" /\ read_arrivals
    /\ Len(event.phase_arrivals) = 2
    /\ Len(event.amplitudes) = 1
    /\ event.phase_arrivals[1].sta = PStr("TRO")
    /\ event.phase_arrivals[2].sta = PStr("MOL")
    /\ event.amplitudes[1].sta = PStr("KBS")

LegacyPhaseLines == {PhaseA, PhaseB, PhaseC, PhaseD}

\* C7: a phase line folded after a Hypocenter line has an arrtime on the
\* origin date decoded from the last Hypocenter line; a phase line folded
\* before any Hypocenter line has the date-less arrtime (1900-01-01 with
\* the line's time of day), and a well-formed one does not raise.
C7_PhaseDateFollowsHypocenter ==
    /\ PhaseFolded =>
           /\ phase_info.arrtime.ms =
                  TimeMs(phase_info.arr_h, phase_info.arr_m, phase_info.arr_s)
           /\ phase_info.arrtime.date =
                  IF hyp_lines # <<>>
                  THEN _parse_type_1(Last(hyp_lines)).val.origin_time.date
                  ELSE NoDate
    /\ (Taken /\ pc = "raised" /\ TagOf(line) = " " /\ format = 1
          /\ hyp_lines = <<>>) =>
           \A l \in LegacyPhaseLines : line \notin {l, l \o "\n"}

C7_Witness ==
    /\ PhaseFolded
    /\ Len(hyp_lines) = 1
    /\ Len(event.phase_arrivals) = 2
    /\ event.phase_arrivals[1].arrtime.date = NoDate
    /\ event.phase_arrivals[2].arrtime.date = <<1996, 6, 3>>
    /\ event.phase_arrivals[2] = phase_info

\* A field holds a value: it is neither None nor the empty string.
IsSetValue(v) == ~IsNone(v) /\ (IsStr(v) => v.str # "")

ModelledFields ==
    {"latitude", "longitude", "depth", "mag", "n", "rms", "gap",
     "otime_err", "lat_err", "lon_err", "z_err"}

\* C8: no rollback: a modelled Event field that holds a value still holds
\* a value after every later step; no line returns it to absent or empty.
C8_NoRollback ==
    [][\A k \in ModelledFields :
           IsSetValue(event.attrs[k]) => IsSetValue(event'.attrs[k])]_vars

HypocenterFields ==
    {"origin_time", "latitude", "longitude", "depth", "n", "rms", "mag",
     "fixed_depth"}

\* C9: when the bulletin has several Hypocenter (tag '1') lines, the event
\* returned by read_sfile has the hypocenter fields decoded from the last
\* of them.
C9_LastHypocenterWins ==
    (pc = "returned" /\ Len(hyp_lines) >= 2) =>
        \A k \in HypocenterFields :
            event.attrs[k] = _parse_type_1(Last(hyp_lines)).val[k]

\* the travel-time entry of one arrival
EntryOf(arr, T) == <<arr.sta, arr.phase, arr.dist, TimeDelta(arr.arrtime, T)>>

\* entries are the entries of some of the arrivals, in the arrivals' order
RECURSIVE EntriesFollow(_, _, _)
EntriesFollow(entries, arrs, T) ==
    IF entries = <<>> THEN TRUE
    ELSE IF arrs = <<>> THEN FALSE
    ELSE IF Head(entries) = EntryOf(Head(arrs), T)
         THEN EntriesFollow(Tail(entries), Tail(arrs), T)
         ELSE EntriesFollow(entries, Tail(arrs), T)

\* C10: for an event with origin_time T, what calc_ttimes returns is a
\* list of entries [station, phase, distance, arrtime - T] of arrivals, in
\* the relative order of phase_arrivals.
C10_TtimesFollowArrivals ==
    (pc = "returned" /\ calls > 0 /\ ret.exc = ""
        /\ IsDateTime(event.attrs.origin_time)) =>
        EntriesFollow(ret.val, event.phase_arrivals, event.attrs.origin_time)

\* the travel-time entries of the arrivals whose distance column is not
\* blank, in the arrivals' order
RECURSIVE EntriesWithDistance(_, _)
EntriesWithDistance(arrs, T) ==
    IF arrs = <<>> THEN <<>>
    ELSE IF Head(arrs).dist = PStr("")
         THEN EntriesWithDistance(Tail(arrs), T)
         ELSE <<EntryOf(Head(arrs), T)>> \o EntriesWithDistance(Tail(arrs), T)

\* C11: calc_ttimes skips an arrival if and only if its distance is absent:
\* what the first call returns has exactly one entry for every arrival
\* with a recorded distance (zero included) and none for the others.
C11_SkipsIffDistanceAbsent ==
    (pc = "returned" /\ calls = 1 /\ ret.exc = ""
        /\ IsDateTime(event.attrs.origin_time)) =>
        ret.val = EntriesWithDistance(event.phase_arrivals,
                                      event.attrs.origin_time)

\* C12: travel times are recomputed, not accumulated: a call of calc_ttimes
\* that follows a call which returned a list returns that same list.
C12_TtimesRecomputed ==
    [][(calls >= 1 /\ calls' = calls + 1 /\ ret.exc = "") => ret' = ret]_vars

\* C13: calc_ttimes on an event whose origin_time is absent ends in an
\* error, whatever phase_arrivals holds; it never returns a list.
C13_NoOriginTimeFails ==
    (pc = "returned" /\ calls > 0 /\ IsNone(event.attrs.origin_time)) =>
        ret.exc # ""

\* the columns of the Error-estimate line that hold each field
ErrorColumns ==
    [gap |-> <<5, 8>>, otime_err |-> <<14, 20>>, lat_err |-> <<23, 30>>,
     lon_err |-> <<31, 38>>, z_err |-> <<38, 43>>]

\* The last loop iteration folded an Error-estimate (tag 'E') line.
ErrorFolded ==
    Taken /\ pc # "raised" /\ TagOf(line) = "E" /\ type_line = "E"

\* C19: after an Error-estimate line is folded, each of gap, otime_err,
\* lat_err, lon_err and z_err is the absent marker '' when its column is
\* blank and otherwise the number written in its column, so it is the
\* number 0.0 only when the column records zero.
C19_ErrorBlankIsAbsent ==
    ErrorFolded =>
        \A k \in DOMAIN ErrorColumns :
            LET col == Slice(line, ErrorColumns[k][1], ErrorColumns[k][2])
            IN  IF Strip(col) = ""
                THEN event.attrs[k] = PStr("")
                ELSE /\ PyFloat(col).ok
                     /\ event.attrs[k] = PFloat(PyFloat(col).v)

C19_Witness ==
    /\ ErrorFolded
    /\ event.attrs.gap = PStr("")
    /\ event.attrs.lat_err = PStr("")
    /\ event.attrs.z_err = PFloat(0)
    /\ event.attrs.otime_err = PFloat(500)

\* C20: read_sfile called with a format other than 1 or 2 raises
\* ValueError before any line is read or folded and returns no Event.
C20_BadFormatFailsFirst ==
    (format \notin {1, 2}) =>
        /\ pc \in {"start", "raised"}
        /\ pc = "raised" => exc = "ValueError"
        /\ nread = 0
        /\ event = NewEvent

C20_Witness == format = 3 /\ pc = "raised" /\ exc = "ValueError"

(***************************************************************************)
(* Catalog.__init__ and Catalog.add_events (catalog.py).  add_events calls *)
(* read_sfile(ev) with the default format 1 and read_arrivals True; the    *)
(* read runs inside the loop of add_events, one line at a step, on the     *)
(* variables of read_sfile.                                                *)
(***************************************************************************)
\* a Hypocenter line whose year is not a number
HypBad ==
    " 19x6  6 3 1955 35.5 D  47.760 153.227 10.0  TES 12 1.1 5.6LTES                1"

\* the Sfiles on disk: path -> f.readlines(); nl tells whether the line
\* ends with a line break
Files ==
    [a |-> <<[l |-> HypA, nl |-> TRUE], [l |-> PhaseA, nl |-> TRUE],
             [l |-> ErrA, nl |-> TRUE]>>,
     b |-> <<[l |-> HypB, nl |-> TRUE], [l |-> PhaseB, nl |-> FALSE]>>,
     bad |-> <<[l |-> PhaseA, nl |-> TRUE], [l |-> HypBad, nl |-> TRUE],
               [l |-> ErrA, nl |-> TRUE]>>]

\* the items a list handed to Catalog can hold: a path (str), an Event
\* instance, or a value of another type
IsPath(item) == IsStr(item)
IsEvent(item) == "attrs" \in DOMAIN item
AnEvent == [NewEvent EXCEPT !.attrs.mag = PFloat(3000)]
Items == {PStr("a"), PStr("b"), PStr("bad"), AnEvent, PInt(7)}
Batches == UNION {[1..n -> Items] : n \in 0..MaxBatch}

InitCatalog ==
    /\ events \in Batches
    /\ via \in {"__init__", "add_events"}
    /\ cat_pc = "start"
    /\ cat_exc = ""
    /\ cat_i = 0
    /\ catalog = <<>>
    /\ ReadIdle /\ event = NewEvent /\ MagIdle /\ GeoIdle /\ FitIdle
    /\ FltIdle

\* catalog.py 24-27: self.catalog = []; if events: self.add_events(events)
Catalog__init__ ==
    /\ cat_pc = "start" /\ via = "__init__"
    /\ catalog' = <<>>
    /\ IF events # <<>>
       THEN cat_pc' = "adding" /\ cat_i' = 1
       ELSE cat_pc' = "done" /\ cat_i' = cat_i
    /\ UNCHANGED <<events, via, cat_exc>>
    /\ UNCHANGED notcat

\* catalog.py 29-37: add_events(events) called on an empty Catalog()
add_events ==
    /\ cat_pc = "start" /\ via = "add_events"
    /\ cat_pc' = "adding" /\ cat_i' = 1
    /\ UNCHANGED <<events, via, cat_exc, catalog>>
    /\ UNCHANGED notcat

\* catalog.py 37-41: "for ev in events" takes the next item, or ends; an
\* Event is appended, a path enters read_sfile(ev) (read.py 16-20)
AddEventsStep ==
    /\ cat_pc = "adding"
    /\ IF cat_i > Len(events)
       THEN /\ cat_pc' = "done"
            /\ UNCHANGED <<cat_i, catalog, readvars, event>>
       ELSE LET ev == events[cat_i]
            IN  IF IsEvent(ev)
                THEN /\ catalog' = Append(catalog, ev)
                     /\ cat_i' = cat_i + 1
                     /\ UNCHANGED <<cat_pc, readvars, event>>
                ELSE IF IsPath(ev)
                THEN /\ cat_pc' = "reading"
                     /\ format' = 1 /\ read_arrivals' = TRUE
                     /\ pc' = "reading" /\ exc' = ""
                     /\ nread' = 0 /\ at_eof' = FALSE /\ line' = ""
                     /\ type_line' = Unbound /\ phase_info' = None
                     /\ event' = NewEvent
                     /\ UNCHANGED <<cat_i, catalog, calls, ret, hyp_lines>>
                ELSE /\ cat_i' = cat_i + 1
                     /\ UNCHANGED <<cat_pc, catalog, readvars, event>>
    /\ UNCHANGED <<events, via, cat_exc>>
    /\ UNCHANGED <<magvars, geovars, fitvars, fltvars>>

\* read.py 21-84 within add_events: the next line of the file is folded
CatReadLine ==
    /\ cat_pc = "reading"
    /\ nread < Len(Files[events[cat_i].str])
    /\ LET f == Files[events[cat_i].str][nread + 1]
       IN  ReadLine(f.l, f.nl)

\* read.py 85-86, catalog.py 41-42: read_sfile returns the Event and it
\* is appended
CatReadReturn ==
    /\ cat_pc = "reading" /\ pc = "reading"
    /\ nread = Len(Files[events[cat_i].str])
    /\ catalog' = Append(catalog,
           [event EXCEPT !.attrs = [sfile |-> events[cat_i]] @@ @])
    /\ cat_i' = cat_i + 1
    /\ cat_pc' = "adding"
    /\ pc' = "idle" /\ nread' = 0 /\ at_eof' = FALSE /\ line' = ""
    /\ type_line' = Unbound /\ phase_info' = None /\ event' = NewEvent
    /\ hyp_lines' = <<>>
    /\ UNCHANGED <<format, read_arrivals, exc, calls, ret>>
    /\ UNCHANGED <<events, via, cat_exc>>
    /\ UNCHANGED <<magvars, geovars, fitvars, fltvars>>

\* the exception raised in read_sfile leaves add_events: nothing catches it
CatReadRaise ==
    /\ cat_pc = "reading" /\ pc = "raised"
    /\ cat_pc' = "raised"
    /\ cat_exc' = exc
    /\ UNCHANGED <<events, via, cat_i, catalog>>
    /\ UNCHANGED notcat

NextCatalog ==
    \/ Catalog__init__
    \/ add_events
    \/ AddEventsStep
    \/ CatReadLine
    \/ CatReadReturn
    \/ CatReadRaise

SpecCatalog == InitCatalog /\ [][NextCatalog]_vars

\* the call is over: it returned or it raised
CatOver == cat_pc \in {"done", "raised"}

\* every line of the file is decoded without error
FileParses(path) ==
    \A k \in 1..Len(Files[path]) :
        Dispatch(NewEvent, TagOf(Files[path][k].l), Files[path][k].l,
                 1, TRUE, None).exc = ""

\* C14: a parse failure is confined to its own file: when the call is
\* over, the event of every path of the list whose file parses is in the
\* catalog, whether the path comes before or after a file that fails.
C14_ParseFailureConfined ==
    CatOver =>
        \A i \in 1..Len(events) :
            (IsPath(events[i]) /\ FileParses(events[i].str)) =>
                \E j \in 1..Len(catalog) :
                    /\ "sfile" \in DOMAIN catalog[j].attrs
                    /\ catalog[j].attrs.sfile = events[i]

(***************************************************************************)
(* Magnitude estimation: Event.add_station_coords, Event._kim and          *)
(* Event.calc_mag (event.py), calc_dist (util.py).  Coordinates are pairs  *)
(* <<lat, lon>> in thousandths of a degree, distances in thousandths of a  *)
(* km, magnitudes in thousandths.  A dict of station coordinates is a      *)
(* function from station names; <<>> stands for the empty list or dict and *)
(* for the default None of the sta_coords argument (all three are falsy).  *)
(***************************************************************************)
PNaN == [nan |-> TRUE]

RECURSIVE ISqrtIn(_, _, _)
ISqrtIn(n, lo, hi) ==
    IF lo >= hi THEN lo
    ELSE LET mid == (lo + hi + 1) \div 2
         IN  IF mid * mid <= n THEN ISqrtIn(n, mid, hi)
             ELSE ISqrtIn(n, lo, mid - 1)

\* np.sqrt, to the thousandth below
sqrt(n) == ISqrtIn(n, 0, 46340)

\* util.py 36: np.sqrt((x1[0]-x2[0])**2 + (x1[1]-x2[1])**2) * 111.11
calc_dist(x1, x2) ==
    (sqrt((x1[1] - x2[1]) * (x1[1] - x2[1])
          + (x1[2] - x2[2]) * (x1[2] - x2[2])) * 11111) \div 100

\* np.log10 at the arguments the model reaches (thousandths, rounded):
\* log10(1.0), log10(10.0), log10(111.11), log10(555.55), log10(1111.1)
Log10Table ==
    (1000 :> 0) @@ (10000 :> 1000) @@ (111110 :> 2046)
    @@ (555550 :> 2745) @@ (1111100 :> 3046)

log10(x) == Log10Table[x]

\* event.py 165: np.log10(amp["amp"]/1000.0)+(1.55*np.log10(sta_dist))-0.22
kim_mag(amp, sta_dist) ==
    log10(amp \div 1000) + (1550 * log10(sta_dist)) \div 1000 - 220

\* the stations of the arrival and amplitude records
StationsOf(ev) ==
    {ev.phase_arrivals[i].sta.str : i \in 1..Len(ev.phase_arrivals)}
    \cup {ev.amplitudes[i].sta.str : i \in 1..Len(ev.amplitudes)}

\* Variant: a station missing from the mapping is skipped.
add_station_coords_SkipMissing(ev, sta_coords, arrivals_only) ==
    IF arrivals_only
    THEN IF ev.phase_arrivals = <<>> /\ ev.amplitudes = <<>>
         THEN Raise("ValueError")
         ELSE Ok([ev EXCEPT !.sta_coords =
                     [sta \in StationsOf(ev) \cap DOMAIN sta_coords |->
                         sta_coords[sta]]])
    ELSE Ok([ev EXCEPT !.sta_coords = sta_coords])

\* event.py 102-125; returns Ok(event after the call) or Raise
add_station_coords(ev, sta_coords, arrivals_only) ==
    IF arrivals_only
    THEN IF ev.phase_arrivals = <<>> /\ ev.amplitudes = <<>>
         THEN Raise("ValueError")
         ELSE IF \E sta \in StationsOf(ev) : sta \notin DOMAIN sta_coords
         THEN Raise("KeyError")
         ELSE Ok([ev EXCEPT !.sta_coords =
                     [sta \in StationsOf(ev) |-> sta_coords[sta]]])
    ELSE Ok([ev EXCEPT !.sta_coords = sta_coords])

\* Variant: a station that is not in the mapping gets a default coordinate.
Coord_Default(sc, sta) ==
    IF sta \in DOMAIN sc THEN Ok(sc[sta]) ELSE Ok(<<0, 1000>>)

\* event.py 161-162: self.sta_coords[sta]
Coord(sc, sta) ==
    IF sta \in DOMAIN sc THEN Ok(sc[sta]) ELSE Raise("KeyError")

\* event.py 158-169: the loop that fills sta_mags (station -> list of mags)
RECURSIVE StaMagsLoop(_, _, _)
StaMagsLoop(ev, amps, sta_mags) ==
    IF amps = <<>> THEN Ok(sta_mags)
    ELSE LET amp == Head(amps)
             sta == amp.sta.str
             c == Coord(ev.sta_coords, sta)
             sta_dist == calc_dist(c.val, <<ev.attrs.latitude.flt,
                                            ev.attrs.longitude.flt>>)
             mag == kim_mag(amp.amp.flt, sta_dist)
         IN  IF Raised(c) THEN c
             ELSE IF ~IsFlt(ev.attrs.latitude) \/ ~IsFlt(ev.attrs.longitude)
                  THEN Raise("TypeError")
             ELSE StaMagsLoop(ev, Tail(amps),
                    IF sta \in DOMAIN sta_mags
                    THEN [sta_mags EXCEPT ![sta] = Append(@, mag)]
                    ELSE (sta :> <<mag>>) @@ sta_mags)

\* Variant: the first pick of a station stands for the station.
list_first(v) == v[1]

\* max(v)
RECURSIVE list_max(_)
list_max(v) ==
    IF Len(v) = 1 THEN v[1]
    ELSE LET m == list_max(Tail(v)) IN IF v[1] >= m THEN v[1] ELSE m

\* [max(v) for k,v in sta_mags.items()]
RECURSIVE StationMaxima(_, _)
StationMaxima(sta_mags, stas) ==
    IF stas = {} THEN <<>>
    ELSE LET sta == CHOOSE x \in stas : TRUE
         IN  <<list_max(sta_mags[sta])>>
             \o StationMaxima(sta_mags, stas \ {sta})

RECURSIVE SeqSum(_)
SeqSum(v) == IF v = <<>> THEN 0 ELSE Head(v) + SeqSum(Tail(v))

\* sorted(v), by insertion
RECURSIVE Insert(_, _)
Insert(x, v) ==
    IF v = <<>> THEN <<x>>
    ELSE IF x <= Head(v) THEN <<x>> \o v
    ELSE <<Head(v)>> \o Insert(x, Tail(v))

RECURSIVE Sorted(_)
Sorted(v) == IF v = <<>> THEN <<>> ELSE Insert(Head(v), Sorted(Tail(v)))

\* np.mean(v), np.median(v): nan for an empty list
np_mean(v) == IF v = <<>> THEN PNaN ELSE PFloat(SeqSum(v) \div Len(v))

np_median(v) ==
    LET w == Sorted(v)
        n == Len(v)
    IN  IF v = <<>> THEN PNaN
        ELSE IF n % 2 = 1 THEN PFloat(w[(n + 1) \div 2])
        ELSE PFloat((w[n \div 2] + w[n \div 2 + 1]) \div 2)

\* round(x, 1): to the nearest tenth, a tie to the even tenth
round1(x) ==
    IF ~IsFlt(x) THEN x
    ELSE LET q == x.flt \div 100
             r == x.flt % 100
         IN  PFloat(100 * (IF r > 50 \/ (r = 50 /\ q % 2 = 1)
                           THEN q + 1 ELSE q))

\* event.py 128-174; returns the event after the call with the exception
\* raised ("" if none) and the value returned
_kim(ev, sta_coords, netmag_type) ==
    LET added == add_station_coords(ev, sta_coords, TRUE)
        ev1 == IF DOMAIN ev.sta_coords = {} THEN added.val ELSE ev
        loop == StaMagsLoop(ev1, ev1.amplitudes, <<>>)
        maxima == StationMaxima(loop.val, DOMAIN loop.val)
    IN  IF DOMAIN ev.sta_coords = {} /\ DOMAIN sta_coords = {}
        THEN [exc |-> "ValueError", event |-> ev]
        ELSE IF DOMAIN ev.sta_coords = {} /\ Raised(added)
        THEN [exc |-> added.exc, event |-> ev]
        ELSE IF Raised(loop) THEN [exc |-> loop.exc, event |-> ev1]
        ELSE [exc |-> "", event |-> ev1,
              val |-> IF netmag_type = "median"
                      THEN round1(np_median(maxima))
                      ELSE round1(np_mean(maxima))]

\* event.py 177-192 with func=_kim: self.mag = func(self, **kwargs)
calc_mag(ev, sta_coords, netmag_type) ==
    LET r == _kim(ev, sta_coords, netmag_type)
    IN  IF r.exc # "" THEN [exc |-> r.exc, event |-> r.event]
        ELSE [exc |-> "", event |-> [r.event EXCEPT !.attrs.mag = r.val]]

\* the station coordinates of the model
AllCoords ==
    [TRO |-> <<3000, 4000>>, KBS |-> <<6000, 8000>>, MOL |-> <<0, 1000>>]
SomeCoords == [TRO |-> <<3000, 4000>>, KBS |-> <<6000, 8000>>]
NoCoords == <<>>
Mappings == {NoCoords, SomeCoords, AllCoords}
\* the amplitude picks of the model: station and amplitude (1000.0 nm or
\* 10000.0 nm)
Picks ==
    {<<"TRO", 1000000>>, <<"TRO", 10000000>>, <<"KBS", 1000000>>,
     <<"MOL", 10000000>>}
NetmagTypes == {"mean", "median"}

\* Event(latitude=0.0, longitude=0.0, mag=..., sta_coords=...)
InitMag ==
    /\ \E m \in {None, PFloat(2000)}, sc \in Mappings :
           event = [NewEvent EXCEPT !.attrs.latitude = PFloat(0),
                                    !.attrs.longitude = PFloat(0),
                                    !.attrs.mag = m,
                                    !.sta_coords = sc]
    /\ MagIdle
    /\ ReadIdle /\ CatIdle /\ GeoIdle /\ FitIdle
    /\ FltIdle

\* event.add_arrivals_from_dict of a pick
AddAmplitude(sta, amp) ==
    /\ Len(event.amplitudes) + Len(event.phase_arrivals) < MaxPicks
    /\ event' = add_arrivals_from_dict(event,
                    [sta |-> PStr(sta), phase |-> PStr("IAML"),
                     amp |-> PFloat(amp)])
    /\ mag_op' = "add_arrivals_from_dict"
    /\ mag_exc' = ""
    /\ UNCHANGED <<mag_calls, mag_args>>
    /\ UNCHANGED notmag

\* event.calc_mag(sta_coords=..., netmag_type=...)
CalcMag(sta_coords, netmag_type) ==
    LET r == calc_mag(event, sta_coords, netmag_type)
    IN  /\ mag_calls < MaxMagCalls
        /\ mag_calls' = mag_calls + 1
        /\ mag_op' = "calc_mag"
        /\ mag_args' = [sta_coords |-> sta_coords,
                        netmag_type |-> netmag_type]
        /\ mag_exc' = r.exc
        /\ event' = r.event
        /\ UNCHANGED notmag

\* event.add_station_coords(sta_coords, arrivals_only=...)
AddStationCoords(sta_coords, arrivals_only) ==
    LET r == add_station_coords(event, sta_coords, arrivals_only)
    IN  /\ mag_calls < MaxMagCalls
        /\ mag_calls' = mag_calls + 1
        /\ mag_op' = "add_station_coords"
        /\ mag_args' = [sta_coords |-> sta_coords,
                        arrivals_only |-> arrivals_only]
        /\ mag_exc' = r.exc
        /\ event' = IF Raised(r) THEN event ELSE r.val
        /\ UNCHANGED notmag

NextMag ==
    \/ \E p \in Picks : AddAmplitude(p[1], p[2])
    \/ \E sc \in Mappings, nt \in NetmagTypes : CalcMag(sc, nt)

SpecMag == InitMag /\ [][NextMag]_vars

\* the coordinate mapping a calc_mag call uses: the event's own when it
\* has one, else the sta_coords argument
MappingInUse(ev, sta_coords) ==
    IF DOMAIN ev.sta_coords # {} THEN ev.sta_coords ELSE sta_coords

AmpStations(ev) == {ev.amplitudes[i].sta.str : i \in 1..Len(ev.amplitudes)}

\* C15: a calc_mag call made while some amplitude record's station is
\* absent from the coordinate mapping in use raises an error (KeyError, or
\* ValueError when there is no mapping at all) and leaves Event.mag as it
\* was before the call.
C15_Step ==
    (/\ mag_op' = "calc_mag" /\ mag_calls' = mag_calls + 1
     /\ \E sta \in AmpStations(event) :
            sta \notin DOMAIN MappingInUse(event, mag_args'.sta_coords)) =>
        /\ mag_exc' \in {"KeyError", "ValueError"}
        /\ event'.attrs.mag = event.attrs.mag

C15_MissingStationFails == [][C15_Step]_vars

C15_Witness ==
    /\ mag_op = "calc_mag" /\ mag_exc = "KeyError"
    /\ event.sta_coords = SomeCoords
    /\ AmpStations(event) = {"TRO", "MOL"}
    /\ event.amplitudes[1].sta = PStr("TRO")
    /\ event.attrs.mag = PFloat(2000)

\* the amplitude picks of one station, and the magnitude of one pick
PicksOf(ev, sta) ==
    {i \in 1..Len(ev.amplitudes) : ev.amplitudes[i].sta.str = sta}
PickMag(ev, i) ==
    kim_mag(ev.amplitudes[i].amp.flt,
            calc_dist(ev.sta_coords[ev.amplitudes[i].sta.str],
                      <<ev.attrs.latitude.flt, ev.attrs.longitude.flt>>))

\* stage one: the largest magnitude among the picks of the station
StationMag(ev, sta) ==
    CHOOSE m \in {PickMag(ev, i) : i \in PicksOf(ev, sta)} :
        \A i \in PicksOf(ev, sta) : PickMag(ev, i) <= m

RECURSIVE SumOfStations(_, _)
SumOfStations(ev, stas) ==
    IF stas = {} THEN 0
    ELSE LET sta == CHOOSE x \in stas : TRUE
         IN  StationMag(ev, sta) + SumOfStations(ev, stas \ {sta})

\* the k-th smallest of the station magnitudes, each station counted once
KthStationMag(ev, k) ==
    LET S == AmpStations(ev)
    IN  CHOOSE m \in {StationMag(ev, sta) : sta \in S} :
            /\ Cardinality({t \in S : StationMag(ev, t) < m}) <= k - 1
            /\ Cardinality({t \in S : StationMag(ev, t) > m})
                   <= Cardinality(S) - k

\* stage two: the mean, or the median, over the stations
MeanOfStations(ev) ==
    SumOfStations(ev, AmpStations(ev)) \div Cardinality(AmpStations(ev))
MedianOfStations(ev) ==
    LET n == Cardinality(AmpStations(ev))
    IN  IF n % 2 = 1 THEN KthStationMag(ev, (n + 1) \div 2)
        ELSE (KthStationMag(ev, n \div 2)
              + KthStationMag(ev, n \div 2 + 1)) \div 2

\* The last call on the event was a calc_mag that returned.
MagComputed ==
    mag_op = "calc_mag" /\ mag_exc = "" /\ event.amplitudes # <<>>

IterLimit == 100
ImpossibleDlon == -4000000
DlonThreshold == -3000000

GeoInputs == {"identical", "underflow", "infinite", "regular"}
Dlons == 0..MaxDlon

\* util.py 84-85: the condition of the while loop
LoopCond(last, d) == last < DlonThreshold \/ (d # 0 /\ last # d)

InitGeo ==
    /\ geo_in \in GeoInputs
    /\ geo_pc = "start"
    /\ geo_exc = ""
    /\ iterlimit = 0 /\ dlon = 0 /\ last_dlon = 0 /\ iters = 0
    /\ ReadIdle /\ event = NewEvent /\ CatIdle /\ MagIdle /\ FitIdle
    /\ FltIdle

\* util.py 59-82: the short-circuit for identical points, else the set-up
\* of the iteration (omega is lon2 - lon1)
GeoCall ==
    /\ geo_pc = "start"
    /\ IF geo_in = "identical"
       THEN /\ geo_pc' = "returned"
            /\ UNCHANGED <<dlon, last_dlon, iterlimit>>
       ELSE /\ geo_pc' = "loop"
            /\ \E omega \in Dlons : dlon' = omega
            /\ last_dlon' = ImpossibleDlon
            /\ iterlimit' = IterLimit
    /\ UNCHANGED <<geo_in, geo_exc, iters>>
    /\ UNCHANGED notgeo

\* util.py 83-118: one pass of the while loop whose condition holds
GeoIter ==
    /\ geo_pc = "loop"
    /\ LoopCond(last_dlon, dlon)
    /\ iters' = iters + 1
    /\ IF geo_in = "infinite"
       THEN \* math.sin(dlon) raises ValueError: except ValueError
            /\ geo_pc' = "raised" /\ geo_exc' = "StopIteration"
            /\ UNCHANGED <<dlon, last_dlon, iterlimit>>
       ELSE IF geo_in = "underflow"
       THEN \* sin_alpha = ... / sin_sigma with sin_sigma = 0.0
            /\ geo_pc' = "raised" /\ geo_exc' = "ZeroDivisionError"
            /\ UNCHANGED <<dlon, last_dlon, iterlimit>>
       ELSE /\ last_dlon' = dlon
            /\ \E d \in Dlons : dlon' = d
            /\ iterlimit' = iterlimit - 1
            /\ IF iterlimit' < 0
               THEN geo_pc' = "raised" /\ geo_exc' = "StopIteration"
               ELSE UNCHANGED <<geo_pc, geo_exc>>
    /\ UNCHANGED geo_in
    /\ UNCHANGED notgeo

\* util.py 120-155: the loop condition is false, the result is returned
GeoReturn ==
    /\ geo_pc = "loop"
    /\ ~LoopCond(last_dlon, dlon)
    /\ geo_pc' = "returned"
    /\ UNCHANGED <<geo_in, geo_exc, iterlimit, dlon, last_dlon, iters>>
    /\ UNCHANGED notgeo

NextGeo ==
    \/ GeoCall
    \/ GeoIter
    \/ GeoReturn

SpecGeo == InitGeo /\ [][NextGeo]_vars

\* C17: calc_dist_geo ends either by returning a result, and then the
\* points were identical or the last pass of the loop left its condition
\* false, or by raising the non-convergence condition (StopIteration, for
\* the iteration cap or a domain error); the loop body runs a bounded
\* number of times.
C17_ReturnsConvergedOrNonConvergence ==
    /\ geo_pc = "raised" => geo_exc = "StopIteration"
    /\ geo_pc = "returned" =>
           geo_in = "identical" \/ (iters > 0 /\ ~LoopCond(last_dlon, dlon))
    /\ iters <= IterLimit + 1

\* C28: in any single call of calc_dist_geo the body of the Vincenty loop
\* is executed at most 100 times before the call returns or raises the
\* non-convergence condition.
C28_AtMostHundredIterations == iters <= IterLimit

(***************************************************************************)
(* least_squares_bf (util.py 6-23).  A float is an exact fraction          *)
(* [num, den] in lowest terms with den > 0; a division 0.0/0.0 of numpy    *)
(* floats gives nan (with a RuntimeWarning, no exception), and every       *)
(* operation on nan gives nan.                                             *)
(***************************************************************************)
RECURSIVE GCD(_, _)
GCD(a, b) == IF b = 0 THEN a ELSE GCD(b, a % b)

Abs(a) == IF a < 0 THEN -a ELSE a

Frac(num, den) ==
    LET g == GCD(Abs(num), Abs(den))
        sg == IF den < 0 THEN -1 ELSE 1
    IN  [num |-> sg * (num \div g), den |-> sg * (den \div g)]

IsNaN(v) == v = PNaN

\* a / b, a * b, a + b, a - b on floats
FDiv(a, b) ==
    IF IsNaN(a) \/ IsNaN(b) \/ (a.num = 0 /\ b.num = 0) THEN PNaN
    ELSE Frac(a.num * b.den, a.den * b.num)
FMul(a, b) ==
    IF IsNaN(a) \/ IsNaN(b) THEN PNaN
    ELSE Frac(a.num * b.num, a.den * b.den)
FAdd(a, b) ==
    IF IsNaN(a) \/ IsNaN(b) THEN PNaN
    ELSE Frac(a.num * b.den + b.num * a.den, a.den * b.den)
FSub(a, b) ==
    IF IsNaN(a) \/ IsNaN(b) THEN PNaN
    ELSE Frac(a.num * b.den - b.num * a.den, a.den * b.den)

\* np.sum over an array of floats
RECURSIVE np_sum(_)
np_sum(v) == IF v = <<>> THEN Frac(0, 1) ELSE FAdd(Head(v), np_sum(Tail(v)))

\* x.mean()
mean(v) == FDiv(np_sum(v), Frac(Len(v), 1))

\* util.py 16-23
least_squares_bf(x, y) ==
    LET xs == [i \in 1..Len(x) |-> Frac(x[i], 1)]
        ys == [i \in 1..Len(y) |-> Frac(y[i], 1)]
        x_bar == mean(xs)
        y_bar == mean(ys)
        slope == FDiv(np_sum([i \in 1..Len(x) |->
                                 FMul(FSub(xs[i], x_bar), FSub(ys[i], y_bar))]),
                      np_sum([i \in 1..Len(x) |->
                                 FMul(FSub(xs[i], x_bar), FSub(xs[i], x_bar))]))
        b == FSub(y_bar, FMul(slope, x_bar))
    IN  <<[i \in 1..Len(x) |-> FAdd(FMul(slope, xs[i]), b)], slope, b>>

\* the x-values and y-values of the model
FitXs == 1..3
FitYs == {1, 4}

InitFit ==
    /\ \E n \in 1..MaxPts :
           /\ fit_x \in [1..n -> FitXs]
           /\ fit_y \in [1..n -> FitYs]
    /\ fit_pc = "start"
    /\ fit_ret = <<>>
    /\ ReadIdle /\ event = NewEvent /\ CatIdle /\ MagIdle /\ GeoIdle
    /\ FltIdle

\* least_squares_bf(x, y): no statement of it raises
LeastSquaresBf ==
    /\ fit_pc = "start"
    /\ fit_pc' = "returned"
    /\ fit_ret' = least_squares_bf(fit_x, fit_y)
    /\ UNCHANGED <<fit_x, fit_y>>
    /\ UNCHANGED notfit

NextFit == LeastSquaresBf

SpecFit == InitFit /\ [][NextFit]_vars

\* all x-values are equal (a single point included)
ZeroVariance(x) == \A i, j \in 1..Len(x) : x[i] = x[j]

\* C18: least_squares_bf fails with an error whenever the x-values have
\* zero variance, and never returns a slope or an intercept that is NaN.
C18_ZeroVarianceFails ==
    /\ (fit_pc # "start" /\ ZeroVariance(fit_x)) => fit_pc = "raised"
    /\ fit_pc = "returned" => ~IsNaN(fit_ret[2]) /\ ~IsNaN(fit_ret[3])

(***************************************************************************)
(* Claims about the decoded phase record and the comment list.             *)
(***************************************************************************)
\* the fixed columns of the legacy phase line, as half-open slices
PhaseTextColumns == [sta |-> <<1, 6>>, phase |-> <<10, 14>>]
PhaseIntColumns == [arr_h |-> <<18, 20>>, arr_m |-> <<20, 22>>]
PhaseFloatColumns ==
    [arr_s |-> <<22, 28>>, amp |-> <<33, 40>>, per |-> <<41, 45>>,
     ain |-> <<56, 60>>, tres |-> <<63, 68>>, dist |-> <<70, 75>>,
     az |-> <<75, 79>>]

\* the record the line of station TRO decodes to (test_read.py 37-48)
TroRecord ==
    [sta |-> PStr("TRO"), phase |-> PStr("P"), arr_h |-> PInt(20),
     arr_m |-> PInt(5), arr_s |-> PFloat(32500), amp |-> PStr(""),
     per |-> PStr(""), ain |-> PFloat(21000), tres |-> PFloat(1750),
     dist |-> PFloat(6471000), az |-> PFloat(343000)]

\* C21: the record decoded from a legacy phase line has sta and phase as
\* the trimmed text of their columns, arr_h and arr_m as integers, and
\* arr_s, amp, per, ain, tres, dist and az as the numbers written in their
\* columns, a blank column staying the empty value ''; the line of station
\* TRO gives phase P, 20, 5, 32.5, ain 21.0, tres 1.75, dist 6471.0 and
\* az 343.0.
C21_PhaseRecordFields ==
    PhaseFolded =>
        /\ \A k \in DOMAIN PhaseTextColumns :
               phase_info[k] = PStr(Strip(Slice(line, PhaseTextColumns[k][1],
                                                PhaseTextColumns[k][2])))
        /\ \A k \in DOMAIN PhaseIntColumns :
               LET col == Strip(Slice(line, PhaseIntColumns[k][1],
                                      PhaseIntColumns[k][2]))
               IN  IF col = "" THEN phase_info[k] = PStr("")
                   ELSE /\ AllDigits(col)
                        /\ phase_info[k] = PInt(NatOf(col))
        /\ \A k \in DOMAIN PhaseFloatColumns :
               LET col == Strip(Slice(line, PhaseFloatColumns[k][1],
                                      PhaseFloatColumns[k][2]))
               IN  IF col = "" THEN phase_info[k] = PStr("")
                   ELSE /\ PyFloat(col).ok
                        /\ phase_info[k] = PFloat(PyFloat(col).v)
        /\ line \in {PhaseA, PhaseA \o "\n"} =>
               \A k \in DOMAIN TroRecord : phase_info[k] = TroRecord[k]

C21_Witness ==
    /\ PhaseFolded
    /\ line = PhaseA \o "\n"
    /\ phase_info.dist = PFloat(6471000)
    /\ phase_info.amp = PStr("")
    /\ Last(event.phase_arrivals) = phase_info

\* the comment texts an event holds: none, the one text of its comment
\* attribute, or the list stored there
CommentList(ev) ==
    IF "comment" \notin DOMAIN ev.attrs THEN <<>>
    ELSE IF IsStr(ev.attrs.comment) THEN <<ev.attrs.comment>>
    ELSE ev.attrs.comment

\* C22: the event holds the text of every Comment (tag '3') line folded so
\* far, in input-line order: a step that folds a Comment line appends the
\* text of that line to the comments the event already holds.
C22_Step ==
    (/\ pc = "reading" /\ pc' = "reading" /\ nread' = nread + 1
     /\ TagOf(line') = "3") =>
        CommentList(event') =
            Append(CommentList(event), PStr(Slice(line', 1, 80)))

C22_CommentsAccumulate == [][C22_Step]_vars

(***************************************************************************)
(* Catalog.filter, Catalog._filter_date and Catalog._filter_coord          *)
(* (catalog.py).  A date is the tuple <<year, month, day>>; latitudes and  *)
(* longitudes are floats in thousandths of a degree.                       *)
(***************************************************************************)
\* ~b of a bool b: ~True is -2 and ~False is -1
BitNot(b) == IF b THEN -2 ELSE -1

\* datetime.strptime(v, "%Y-%m-%d"); the strings of the model are written
\* with a four-digit year and two-digit month and day
strptime(v) ==
    IF ~IsStr(v) THEN Raise("TypeError")
    ELSE LET s == v.str
             y == Slice(s, 0, 4)
             m == Slice(s, 5, 7)
             d == Slice(s, 8, 10)
         IN  IF /\ Len(s) = 10 /\ CharAt(s, 4) = "-" /\ CharAt(s, 7) = "-"
                /\ AllDigits(y) /\ AllDigits(m) /\ AllDigits(d)
                /\ DateParses(PInt(NatOf(y)), PInt(NatOf(m)), PInt(NatOf(d)))
             THEN Ok(DateTime(<<NatOf(y), NatOf(m), NatOf(d)>>, 0))
             ELSE Raise("ValueError")

\* Variant: the upper bound is exclusive.
_filter_date_MaxExclusive(ev, min_date, max_date) ==
    LET mn == IF Truthy(min_date) THEN strptime(min_date) ELSE Ok(min_date)
        mx == IF Truthy(max_date) THEN strptime(max_date) ELSE Ok(max_date)
        d == Ordinal(ev.attrs.origin_time.date)
    IN  IF Raised(mn) THEN mn
        ELSE IF Raised(mx) THEN mx
        ELSE IF ~Truthy(mn.val) /\ ~Truthy(mx.val) THEN Ok(FALSE)
        ELSE IF ~IsDateTime(ev.attrs.origin_time) THEN Raise("AttributeError")
        ELSE Ok(/\ Truthy(mx.val) => d < Ordinal(mx.val.date)
                /\ Truthy(mn.val) => d >= Ordinal(mn.val.date))

\* catalog.py 111-132
_filter_date(ev, min_date, max_date) ==
    LET mn == IF Truthy(min_date) /\ BitNot(IsDateTime(min_date)) # 0
              THEN strptime(min_date) ELSE Ok(min_date)
        mx == IF Truthy(max_date) /\ BitNot(IsDateTime(max_date)) # 0
              THEN strptime(max_date) ELSE Ok(max_date)
        d == Ordinal(ev.attrs.origin_time.date)
    IN  IF Raised(mn) THEN mn
        ELSE IF Raised(mx) THEN mx
        ELSE IF Truthy(mn.val) /\ Truthy(mx.val)
        THEN IF ~IsDateTime(ev.attrs.origin_time) THEN Raise("AttributeError")
             ELSE Ok(d <= Ordinal(mx.val.date) /\ d >= Ordinal(mn.val.date))
        ELSE IF Truthy(mn.val) /\ ~Truthy(mx.val)
        THEN IF ~IsDateTime(ev.attrs.origin_time) THEN Raise("AttributeError")
             ELSE Ok(d >= Ordinal(mn.val.date))
        ELSE IF Truthy(mx.val) /\ ~Truthy(mn.val)
        THEN IF ~IsDateTime(ev.attrs.origin_time) THEN Raise("AttributeError")
             ELSE Ok(d <= Ordinal(mx.val.date))
        ELSE Ok(FALSE)

\* catalog.py 134-157; comparing None with a number is a TypeError
_filter_coord(ev, min_lat, max_lat, min_lon, max_lon) ==
    LET lat == ev.attrs.latitude
        lon == ev.attrs.longitude
        lat_in == lat.flt >= min_lat.flt /\ lat.flt <= max_lat.flt
        lon_in == lon.flt >= min_lon.flt /\ lon.flt <= max_lon.flt
    IN  IF \/ Truthy(min_lat) /\ ~Truthy(max_lat)
           \/ Truthy(max_lat) /\ ~Truthy(min_lat)
        THEN Raise("ValueError")
        ELSE IF \/ Truthy(min_lon) /\ ~Truthy(max_lon)
                \/ Truthy(max_lon) /\ ~Truthy(min_lon)
        THEN Raise("ValueError")
        ELSE IF Truthy(min_lat) /\ Truthy(min_lon)
        THEN IF ~IsFlt(lat) THEN Raise("TypeError")
             ELSE IF ~lat_in THEN Ok(FALSE)
             ELSE IF ~IsFlt(lon) THEN Raise("TypeError")
             ELSE Ok(lon_in)
        ELSE IF Truthy(min_lat) /\ ~Truthy(min_lon)
        THEN IF ~IsFlt(lat) THEN Raise("TypeError") ELSE Ok(lat_in)
        ELSE IF Truthy(min_lon) /\ ~Truthy(min_lat)
        THEN IF ~IsFlt(lon) THEN Raise("TypeError") ELSE Ok(lon_in)
        ELSE Ok(FALSE)

\* any(t) of a tuple of values
any(t) == \E i \in 1..Len(t) : Truthy(t[i])

\* catalog.py 176-183: the loop of filter over self.catalog; evs is the
\* list built so far
RECURSIVE FilterLoop(_, _, _)
FilterLoop(cat, a, evs) ==
    IF cat = <<>> THEN Ok(evs)
    ELSE LET ev == Head(cat)
             filt_time ==
                 IF any(<<a.min_date, a.max_date>>)
                 THEN _filter_date(ev, a.min_date, a.max_date)
                 ELSE Ok(TRUE)
             filt_coord ==
                 IF any(<<a.min_lat, a.max_lat, a.min_lon, a.max_lon>>)
                 THEN _filter_coord(ev, a.min_lat, a.max_lat, a.min_lon,
                                    a.max_lon)
                 ELSE Ok(TRUE)
         IN  IF Raised(filt_time) THEN filt_time
             ELSE IF Raised(filt_coord) THEN filt_coord
             ELSE IF filt_time.val /\ filt_coord.val
             THEN FilterLoop(Tail(cat), a, Append(evs, ev))
             ELSE FilterLoop(Tail(cat), a, evs)

\* catalog.py 159-184: the list of the Catalog(evs) returned, whose
\* constructor appends every Event of evs (catalog.py 24-39)
filter(cat, a) == FilterLoop(cat, a, <<>>)

\* an event with an origin time and a hypocenter
Located(date, ms, lat, lon) ==
    [NewEvent EXCEPT !.attrs.origin_time = DateTime(date, ms),
                     !.attrs.latitude = PFloat(lat),
                     !.attrs.longitude = PFloat(lon)]

\* the events a catalog of the model holds; the last one was read from a
\* file without a Hypocenter line
FltEvents ==
    {Located(<<2019, 6, 13>>, 1860000, 40850, -78200),
     Located(<<2022, 4, 1>>, 46832000, 41200, -78500),
     Located(<<2022, 5, 20>>, 86399000, -5000, 0),
     NewEvent}

DateBounds ==
    {None, PStr("2022-04-01"), PStr("2022-05-20"),
     DateTime(<<2022, 4, 1>>, 0)}
LatRanges ==
    {<<None, None>>, <<PFloat(40000), PFloat(41000)>>,
     <<PFloat(0), PFloat(41500)>>, <<PFloat(-10000), PFloat(0)>>,
     <<PFloat(40000), None>>}
LonRanges ==
    {<<None, None>>, <<PFloat(-79000), PFloat(-78000)>>,
     <<PFloat(0), PFloat(10000)>>, <<PFloat(-1000), PFloat(0)>>}

InitFlt ==
    /\ flt_cat \in UNION {[1..n -> FltEvents] : n \in 0..MaxCat}
    /\ \E mn \in DateBounds, mx \in DateBounds, la \in LatRanges,
          lo \in LonRanges :
           flt_args = [min_date |-> mn, max_date |-> mx,
                       min_lat |-> la[1], max_lat |-> la[2],
                       min_lon |-> lo[1], max_lon |-> lo[2]]
    /\ flt_pc = "start"
    /\ flt_exc = ""
    /\ flt_ret = <<>>
    /\ ReadIdle /\ event = NewEvent /\ CatIdle /\ MagIdle /\ GeoIdle
    /\ FitIdle

\* cat.filter(**flt_args)
Filter ==
    /\ flt_pc = "start"
    /\ LET r == filter(flt_cat, flt_args)
       IN  IF Raised(r)
           THEN flt_pc' = "raised" /\ flt_exc' = r.exc /\ flt_ret' = flt_ret
           ELSE flt_pc' = "returned" /\ flt_exc' = "" /\ flt_ret' = r.val
    /\ UNCHANGED <<flt_cat, flt_args>>
    /\ UNCHANGED notflt

NextFlt == Filter

SpecFlt == InitFlt /\ [][NextFlt]_vars

Given(v) == ~IsNone(v)
AllDated(cat) == \A i \in 1..Len(cat) : IsDateTime(cat[i].attrs.origin_time)
NoCoordBounds(a) ==
    ~Given(a.min_lat) /\ ~Given(a.max_lat) /\ ~Given(a.min_lon)
    /\ ~Given(a.max_lon)
NoDateBounds(a) == ~Given(a.min_date) /\ ~Given(a.max_date)

\* the calendar day a bound names, whether a string or a datetime
DayOf(b) ==
    IF IsStr(b)
    THEN <<NatOf(Slice(b.str, 0, 4)), NatOf(Slice(b.str, 5, 7)),
           NatOf(Slice(b.str, 8, 10))>>
    ELSE b.date

\* d1 <= d2 for calendar days
DayLeq(d1, d2) ==
    \/ d1[1] < d2[1]
    \/ d1[1] = d2[1] /\ d1[2] < d2[2]
    \/ d1[1] = d2[1] /\ d1[2] = d2[2] /\ d1[3] <= d2[3]

InDateRange(ev, a) ==
    /\ Given(a.min_date) => DayLeq(DayOf(a.min_date), ev.attrs.origin_time.date)
    /\ Given(a.max_date) => DayLeq(ev.attrs.origin_time.date, DayOf(a.max_date))

\* C23: filter with min_date and/or max_date given as "%Y-%m-%d" strings,
\* on a catalog whose events have an origin date, returns exactly the
\* events whose origin date d has min_date <= d <= max_date by calendar
\* day (a bound not given is unconstrained), in catalog order, and leaves
\* the catalog as it was.
C23_Step ==
    LET a == flt_args
        InRange(ev) == InDateRange(ev, a)
    IN  (/\ flt_pc = "start" /\ flt_pc' # "start"
         /\ ~NoDateBounds(a) /\ NoCoordBounds(a)
         /\ Given(a.min_date) => IsStr(a.min_date)
         /\ Given(a.max_date) => IsStr(a.max_date)
         /\ AllDated(flt_cat)) =>
            /\ flt_pc' = "returned"
            /\ flt_ret' = SelectSeq(flt_cat, InRange)
            /\ flt_cat' = flt_cat

C24_Step ==
    LET a == flt_args
        InRange(ev) == InDateRange(ev, a)
    IN  (/\ flt_pc = "start" /\ flt_pc' # "start"
         /\ IsDateTime(a.min_date) \/ IsDateTime(a.max_date)
         /\ NoCoordBounds(a)
         /\ AllDated(flt_cat)) =>
            /\ flt_pc' = "returned"
            /\ flt_ret' = SelectSeq(flt_cat, InRange)

C24_DatetimeBoundsAccepted == [][C24_Step]_vars

AllLocated(cat) ==
    \A i \in 1..Len(cat) :
        IsFlt(cat[i].attrs.latitude) /\ IsFlt(cat[i].attrs.longitude)

\* both ends of the range are numbers, or neither is given
RangeWellFormed(lo, hi) == (IsFlt(lo) /\ IsFlt(hi)) \/ (~Given(lo) /\ ~Given(hi))

InCoordRange(ev, a) ==
    /\ Given(a.min_lat) =>
           /\ a.min_lat.flt <= ev.attrs.latitude.flt
           /\ ev.attrs.latitude.flt <= a.max_lat.flt
    /\ Given(a.min_lon) =>
           /\ a.min_lon.flt <= ev.attrs.longitude.flt
           /\ ev.attrs.longitude.flt <= a.max_lon.flt

\* C25: filter with a latitude range and/or a longitude range returns
\* exactly the events with min_lat <= latitude <= max_lat and
\* min_lon <= longitude <= max_lon, a range not given being unconstrained,
\* for every pair of numeric bounds, zero included.
C25_Step ==
    LET a == flt_args
        InRange(ev) == InCoordRange(ev, a)
    IN  (/\ flt_pc = "start" /\ flt_pc' # "start"
         /\ NoDateBounds(a) /\ ~NoCoordBounds(a)
         /\ RangeWellFormed(a.min_lat, a.max_lat)
         /\ RangeWellFormed(a.min_lon, a.max_lon)
         /\ AllLocated(flt_cat)) =>
            /\ flt_pc' = "returned"
            /\ flt_ret' = SelectSeq(flt_cat, InRange)

C25_CoordFilterSelects == [][C25_Step]_vars

(***************************************************************************)
(* Event.add_station_coords called on an event that holds amplitude        *)
(* records and phase arrivals.                                             *)
(***************************************************************************)
\* the picks of this specification; the pick with amplitude 0.0 is stored
\* as a phase arrival
CoordPicks == {<<"TRO", 1000000>>, <<"KBS", 1000000>>, <<"MOL", 0>>}

NextCoords ==
    \/ \E p \in CoordPicks : AddAmplitude(p[1], p[2])
    \/ \E sc \in Mappings, ao \in BOOLEAN : AddStationCoords(sc, ao)

SpecCoords == InitMag /\ [][NextCoords]_vars

\* C26: add_station_coords with arrivals_only=True is all-or-nothing: when
\* the event has no phase arrivals and no amplitudes, or a station of one
\* of its records is missing from the mapping supplied, the call raises
\* and sta_coords stays as it was; when it succeeds, sta_coords has exactly
\* the stations of phase_arrivals and amplitudes, each with the
\* coordinates of the mapping supplied.
C26_Step ==
    (/\ mag_op' = "add_station_coords" /\ mag_calls' = mag_calls + 1
     /\ mag_args'.arrivals_only) =>
        IF \/ event.phase_arrivals = <<>> /\ event.amplitudes = <<>>
           \/ \E sta \in StationsOf(event) :
                  sta \notin DOMAIN mag_args'.sta_coords
        THEN /\ mag_exc' \in {"ValueError", "KeyError"}
             /\ event'.sta_coords = event.sta_coords
        ELSE /\ mag_exc' = ""
             /\ DOMAIN event'.sta_coords = StationsOf(event)
             /\ \A sta \in StationsOf(event) :
                    event'.sta_coords[sta] = mag_args'.sta_coords[sta]

C26_StationCoordsAllOrNothing == [][C26_Step]_vars

C26_Witness ==
    /\ mag_op = "add_station_coords" /\ mag_exc = "KeyError"
    /\ mag_args.arrivals_only
    /\ mag_args.sta_coords = SomeCoords
    /\ event.sta_coords = AllCoords
    /\ Len(event.amplitudes) = 1 /\ event.amplitudes[1].sta = PStr("TRO")
    /\ Len(event.phase_arrivals) = 1
    /\ event.phase_arrivals[1].sta = PStr("MOL")

\* C29: in every Event returned by read_sfile whose origin_time is set,
\* the arrtime of every record of phase_arrivals and amplitudes carries the
\* calendar date of the event's origin_time, whatever the order of the
\* Hypocenter and phase lines in the file.
C29_ArrivalsCarryOriginDate ==
    (pc = "returned" /\ IsDateTime(event.attrs.origin_time)) =>
        /\ \A k \in 1..Len(event.phase_arrivals) :
               event.phase_arrivals[k].arrtime.date =
                   event.attrs.origin_time.date
        /\ \A k \in 1..Len(event.amplitudes) :
               event.amplitudes[k].arrtime.date =
                   event.attrs.origin_time.date

(***************************************************************************)
(* read_sfile on the other record types of the format: the lines tagged    *)
(* '6', 'F', 'H', 'I', 'M', 'P' and 'S' next to a Hypocenter, a phase, an  *)
(* Error, a Comment and a MACRO3 line.                                     *)
(***************************************************************************)
Wav ==
    " 1996-06-03-1955-35S.TEST__012                                                 6"
Fps ==
    "     93.2      74.8     -48.2  5.0 10.0  0.2  0.5  1  0 TES FOCMEC A           F"
HighAcc ==
    " 1996  6 3 1955 35.512  47.76012  153.22745   10.012   1.100                   H"
IdLine ==
    " ACTION:UPD 96-06-04 10:11 OP:jh   STATUS:               ID:19960603195535     I"
Moment ==
    " 1996  6 3 1955 35.5    47.760 153.227 10.0  TES    5.6WTES                    M"
Picture ==
    " 1996-06-03-1955-35.png                                                        P"
Spectral ==
    " SPEC TRO  SZ  MO 13.0 ST  4.2 OM  1.5 f0 9.45 R    .22 AL 2.50 WI 20.0 MW  2.6S"

FrameLines ==
    {HypA, PhaseA, ErrA, Com, MacroHyp, Wav, Fps, HighAcc, IdLine, Moment,
     Picture, Spectral}

InitFrame ==
    /\ format \in {1, 2}
    /\ read_arrivals \in BOOLEAN
    /\ pc = "start"
    /\ exc = ""
    /\ nread = 0
    /\ at_eof = FALSE
    /\ line = ""
    /\ type_line = Unbound
    /\ phase_info = None
    /\ event = NewEvent
    /\ calls = 0
    /\ ret = NoCall
    /\ hyp_lines = <<>>
    /\ CatIdle /\ MagIdle /\ GeoIdle /\ FitIdle /\ FltIdle

NextFrame ==
    \/ Begin
    \/ \E l \in FrameLines, nl \in BOOLEAN : ReadLine(l, nl)
    \/ Return

SpecFrame == InitFrame /\ [][NextFrame]_vars

HypocenterOwned == {"origin_time", "latitude", "longitude", "depth", "mag"}
ErrorOwned == {"gap", "otime_err", "lat_err", "lon_err", "z_err"}

\* the attribute has the same value, or is absent, before and after
SameAttr(k) ==
    IF k \in DOMAIN event.attrs
    THEN k \in DOMAIN event'.attrs /\ event'.attrs[k] = event.attrs[k]
    ELSE k \notin DOMAIN event'.attrs

\* C27: a loop iteration changes only the fields owned by the record type
\* of its line: an 'E', '3', '6' or 'F' line leaves origin_time, latitude,
\* longitude, depth and mag unchanged, a Hypocenter line leaves the error
\* fields unchanged, a line tagged 'H', 'I', 'M', 'P' or 'S' changes no
\* field at all, and a line that is not a phase line leaves phase_arrivals
\* and amplitudes unchanged.
C27_Step ==
    (pc = "reading" /\ nread' = nread + 1) =>
        LET t == TagOf(line')
        IN  /\ t \in {"E", "3", "6", "F"} =>
                \A k \in HypocenterOwned : SameAttr(k)
            /\ t = "1" => \A k \in ErrorOwned : SameAttr(k)
            /\ t \in {"H", "I", "M", "P", "S"} => event' = event
            /\ t # " " =>
                /\ event'.phase_arrivals = event.phase_arrivals
                /\ event'.amplitudes = event.amplitudes

C27_LinesChangeOwnFieldsOnly == [][C27_Step]_vars

C27_Witness ==
    /\ pc = "reading" /\ nread = 3
    /\ TagOf(line) = "H"
    /\ Len(hyp_lines) = 1
    /\ event.attrs.depth = PFloat(10000)
    /\ event.attrs.gap = PFloat(348000)
    /\ event.attrs.origin_time = DateTime(<<1996, 6, 3>>, 71735500)

====
